---- MODULE Spec2Model ----
(***************************************************************************)
(* Expense-tracking chat bot (src/bot.py): the conversation state machine  *)
(* (ConversationHandler of main and its handlers) and the statistics       *)
(* engine (compute_stats).                                                 *)
(*                                                                         *)
(* Conventions of the model                                                *)
(*  - Strings are ASCII: the emoji of a button label is written as a word  *)
(*    in parentheses ("(home) To start" is "<house emoji> To start"), the  *)
(*    currency signs of CURS are written "(R)", "din", "(E)", "(Y)", and   *)
(*    the Cyrillic column labels are transliterated ("Summa").             *)
(*  - A float is a fixed-point integer counting 1/10000: 1.5 is 15000.     *)
(*    An exchange rate counts 1/100: 0.01 is 1.                            *)
(*  - Python's None is the string None; no message text equals it.         *)
(*  - context.user_data is a function whose DOMAIN is the set of keys      *)
(*    present.                                                             *)
(***************************************************************************)
EXTENDS Integers, Sequences, FiniteSets, TLC

VARIABLES
    state,      \* ConversationHandler's state of each user's conversation
    draft,      \* context.user_data of each user
    sheet,      \* the "Data" worksheet: header row and data rows
    ev,         \* the update handled by the last step
    sent,       \* the messages the last step delivered, in order
    exc,        \* TRUE iff an exception escaped the last step's handler
    call,       \* the compute_stats invocation of the last step, if any:
                \* its arguments, the outside world's answers, its result
    flows,      \* how many add and statistics flows users have begun
    CATS,       \* the process-wide category list
    config,     \* column A of the Config worksheet as the most recent
                \* load found it, or Unreachable
    ret         \* the validate_categories invocation of the last step, if
                \* any: its argument and the list it returned

vars == <<state, draft, sheet, ev, sent, exc, call, flows, CATS, config, ret>>

(***************************************************************************)
(* Bounds of the model                                                     *)
(***************************************************************************)
MaxFlows == 2       \* flows (add expense, show statistics) users begin
MaxLost == 1        \* rows up to which a confirmation may be lost

(***************************************************************************)
(* Program constants                                                       *)
(***************************************************************************)
CURS == <<"(R)", "din", "(E)", "(Y)">>
None == "None"

CHOOSE_ACTION == "CHOOSE_ACTION"
CHOOSE_CAT == "CHOOSE_CAT"
TYPING_AMT == "TYPING_AMT"
CHOOSE_CUR == "CHOOSE_CUR"
TYPING_CMNT == "TYPING_CMNT"
CHOOSE_DT == "CHOOSE_DT"
TYPING_DT == "TYPING_DT"
STAT_CAT == "STAT_CAT"
STAT_TYPE == "STAT_TYPE"
STAT_DATE_FROM == "STAT_DATE_FROM"
STAT_DATE_TO == "STAT_DATE_TO"
STAT_MONTH == "STAT_MONTH"
STAT_GROUP_CURRENCY == "STAT_GROUP_CURRENCY"
STAT_CONVERT_CURRENCY == "STAT_CONVERT_CURRENCY"
STAT_SHOW_DETAILS == "STAT_SHOW_DETAILS"
\* No conversation yet: ConversationHandler holds no state for the user.
NO_CONVERSATION == "NO_CONVERSATION"

DialogueStates ==
    { CHOOSE_ACTION, CHOOSE_CAT, TYPING_AMT, CHOOSE_CUR, TYPING_CMNT,
      CHOOSE_DT, TYPING_DT, STAT_CAT, STAT_TYPE, STAT_DATE_FROM,
      STAT_DATE_TO, STAT_MONTH, STAT_GROUP_CURRENCY, STAT_CONVERT_CURRENCY,
      STAT_SHOW_DETAILS }

StatStates ==
    { STAT_CAT, STAT_TYPE, STAT_DATE_FROM, STAT_DATE_TO, STAT_MONTH,
      STAT_GROUP_CURRENCY, STAT_CONVERT_CURRENCY, STAT_SHOW_DETAILS }

\* The users of the bot; u1 is the one TELEGRAM_USERS maps.
Users == {"u1", "u2"}
TELEGRAM_USERS == [u \in {"u1"} |-> "Azat"]
username == [u \in Users |-> IF u = "u1" THEN "azat_tg" ELSE "lisa_tg"]

(***************************************************************************)
(* Generic helpers                                                         *)
(***************************************************************************)
Range(s) == { s[i] : i \in DOMAIN s }

\* dict: d[k] = v
Put(d, k, v) == [x \in (DOMAIN d) \cup {k} |-> IF x = k THEN v ELSE d[x]]
\* dict.get(k, default)
Get(d, k, default) == IF k \in DOMAIN d THEN d[k] ELSE default
\* user_data after clear()
EmptyDraft == [k \in {} |-> None]

RECURSIVE Unique(_)
\* pandas Series.unique(): the distinct values in order of first appearance
Unique(s) ==
    IF s = <<>> THEN <<>>
    ELSE LET init == Unique(SubSeq(s, 1, Len(s) - 1))
             last == s[Len(s)]
         IN  IF last \in Range(init) THEN init ELSE Append(init, last)

RECURSIVE SumSeq(_)
SumSeq(s) == IF s = <<>> THEN 0 ELSE Head(s) + SumSeq(Tail(s))

(***************************************************************************)
(* Numbers: float(text.replace(",", ".")) and the display format           *)
(***************************************************************************)
Digits == {"0", "1", "2", "3", "4", "5", "6", "7", "8", "9"}
DigitVal(c) ==
    CASE c = "0" -> 0 [] c = "1" -> 1 [] c = "2" -> 2 [] c = "3" -> 3
      [] c = "4" -> 4 [] c = "5" -> 5 [] c = "6" -> 6 [] c = "7" -> 7
      [] c = "8" -> 8 [] c = "9" -> 9

\* The characters of the texts whose characters the program looks at.
Chars(text) ==
    CASE text = "12" -> <<"1", "2">>
      [] text = "100" -> <<"1", "0", "0">>
      [] text = "1,5" -> <<"1", ",", "5">>
      [] text = "1.5" -> <<"1", ".", "5">>
      [] text = "-5" -> <<"-", "5">>
      [] text = "1,2,3" -> <<"1", ",", "2", ",", "3">>
      [] text = "abc" -> <<"a", "b", "c">>
      [] text = "Food" -> <<"F", "o", "o", "d">>
      [] text = "13.07.2025" ->
            <<"1", "3", ".", "0", "7", ".", "2", "0", "2", "5">>
      [] text = "To start" -> <<"T", "o", " ", "s", "t", "a", "r", "t">>
      [] text = "" -> <<>>
      [] text = "  " -> <<" ", " ">>
      [] text = " Food " -> <<" ", "F", "o", "o", "d", " ">>
      [] text = "Taxi" -> <<"T", "a", "x", "i">>
      [] text = "Taxi " -> <<"T", "a", "x", "i", " ">>
      [] text = "Category" -> <<"C", "a", "t", "e", "g", "o", "r", "y">>
      [] OTHER -> <<"?">>

\* str.replace(",", ".")
ReplaceComma(cs) == [i \in DOMAIN cs |-> IF cs[i] = "," THEN "." ELSE cs[i]]

RECURSIVE IntOf(_)
IntOf(cs) ==
    IF cs = <<>> THEN 0
    ELSE 10 * IntOf(SubSeq(cs, 1, Len(cs) - 1)) + DigitVal(cs[Len(cs)])

Pow10(n) == CASE n = 0 -> 1 [] n = 1 -> 10 [] n = 2 -> 100 [] n = 3 -> 1000
              [] n = 4 -> 10000

\* float(): an optional sign, digits with at most one point, at least one
\* digit.  The value counts 1/10000; digits after the fourth decimal are
\* dropped.  ok = FALSE is ValueError.
ParseFloat(cs) ==
    LET signed == cs # <<>> /\ cs[1] \in {"-", "+"}
        body   == IF signed THEN Tail(cs) ELSE cs
        dots   == { i \in DOMAIN body : body[i] = "." }
        dot    == IF dots = {} THEN Len(body) + 1 ELSE CHOOSE i \in dots : TRUE
        ip     == SubSeq(body, 1, dot - 1)
        fp     == SubSeq(body, dot + 1, Len(body))
        fp4    == SubSeq(fp, 1, IF Len(fp) > 4 THEN 4 ELSE Len(fp))
        wellformed ==
            /\ Cardinality(dots) <= 1
            /\ Len(ip) + Len(fp) >= 1
            /\ \A i \in DOMAIN body : body[i] \in Digits \cup {"."}
        mag    == IntOf(ip) * 10000 + IntOf(fp4) * Pow10(4 - Len(fp4))
    IN  IF wellformed
        THEN [ok |-> TRUE,
              val |-> IF signed /\ cs[1] = "-" THEN 0 - mag ELSE mag]
        ELSE [ok |-> FALSE, val |-> 0]

\* format(x, ".2f"): the value shown, counting 1/100, rounded half to even.
Fmt2(x) ==
    LET q == x \div 100
        r == x % 100
    IN  IF r > 50 \/ (r = 50 /\ q % 2 = 1) THEN q + 1 ELSE q

(***************************************************************************)
(* Dates: strftime / strptime with DATE_FMT and MONTH_FMT, dateutil        *)
(***************************************************************************)
Pad2(n) == IF n < 10 THEN "0" \o ToString(n) ELSE ToString(n)

\* date.strftime(DATE_FMT), DATE_FMT = "%d.%m.%Y"
strftime_DATE_FMT(dt) == Pad2(dt.d) \o "." \o Pad2(dt.m) \o "." \o ToString(dt.y)
\* date.strftime(MONTH_FMT), MONTH_FMT = "%Y-%m"
strftime_MONTH_FMT(dt) == ToString(dt.y) \o "-" \o Pad2(dt.m)

IsLeap(y) == (y % 4 = 0 /\ y % 100 # 0) \/ y % 400 = 0
DaysIn(y, m) ==
    CASE m \in {1, 3, 5, 7, 8, 10, 12} -> 31
      [] m \in {4, 6, 9, 11} -> 30
      [] m = 2 -> IF IsLeap(y) THEN 29 ELSE 28

\* The dates the model's texts and clock can denote: the first, the 12th,
\* the 13th and the last days of June, July and August 2025.
Calendar ==
    { dt \in [y : {2025}, m : {6, 7, 8}, d : {1, 12, 13, 30, 31}] :
        dt.d <= DaysIn(dt.y, dt.m) }

\* dt - timedelta(days=1)
DayBefore(dt) ==
    IF dt.d > 1 THEN [dt EXCEPT !.d = dt.d - 1]
    ELSE IF dt.m > 1
         THEN [y |-> dt.y, m |-> dt.m - 1, d |-> DaysIn(dt.y, dt.m - 1)]
         ELSE [y |-> dt.y - 1, m |-> 12, d |-> 31]

\* The texts strptime(., DATE_FMT) reads as dt: %d and %m take one or two
\* digits.
DateForms(dt) ==
    { strftime_DATE_FMT(dt),
      ToString(dt.d) \o "." \o ToString(dt.m) \o "." \o ToString(dt.y) }

StrptimeTable ==
    [dt \in Calendar |-> DateForms(dt)]

\* datetime.strptime(s, DATE_FMT); ok = FALSE is ValueError (pandas: NaT).
strptime_hit(hits) ==
    IF hits = {} THEN [ok |-> FALSE, dt |-> [y |-> 0, m |-> 0, d |-> 0]]
    ELSE [ok |-> TRUE, dt |-> CHOOSE dt \in hits : TRUE]
strptime_DATE_FMT(s) ==
    strptime_hit({ dt \in Calendar : s \in StrptimeTable[dt] })

\* a <= b on dates
DateLE(a, b) ==
    \/ a.y < b.y
    \/ a.y = b.y /\ a.m < b.m
    \/ a.y = b.y /\ a.m = b.m /\ a.d <= b.d

\* A faulty month_of, which C7 tells from the real one: the format takes the
\* day where MONTH_FMT takes the month ("%Y-%d").
month_of_day(date_str) ==
    ToString(strptime_DATE_FMT(date_str).dt.y) \o "-"
        \o Pad2(strptime_DATE_FMT(date_str).dt.d)

month_of(date_str) == strftime_MONTH_FMT(strptime_DATE_FMT(date_str).dt)

\* datetime.now(): the process clock, the same day throughout a run.
Now == [y |-> 2025, m |-> 8, d |-> 1]

\* dateutil's parser.parse(text, dayfirst=True) on the texts of the model;
\* ok = FALSE is ParserError.  A bare number is read as a day of the
\* current month.
dparser_parse(text) ==
    CASE text = "13.07.2025" -> [ok |-> TRUE, dt |-> [y |-> 2025, m |-> 7, d |-> 13]]
      [] text = "31.07.2025" -> [ok |-> TRUE, dt |-> [y |-> 2025, m |-> 7, d |-> 31]]
      [] text = "01.07.2025" -> [ok |-> TRUE, dt |-> [y |-> 2025, m |-> 7, d |-> 1]]
      [] text = "1/8/25" -> [ok |-> TRUE, dt |-> [y |-> 2025, m |-> 8, d |-> 1]]
      [] text = "12" -> [ok |-> TRUE, dt |-> [Now EXCEPT !.d = 12]]
      [] OTHER -> [ok |-> FALSE, dt |-> [y |-> 0, m |-> 0, d |-> 0]]

(***************************************************************************)
(* The category list: validate_categories, load_categories, CATS           *)
(***************************************************************************)
MaxConfigCells == 3     \* cells of column A of the Config worksheet

RECURSIVE Join(_)
\* the text made of the characters cs
Join(cs) == IF cs = <<>> THEN "" ELSE Head(cs) \o Join(Tail(cs))

RECURSIVE lstrip(_)
lstrip(cs) == IF cs # <<>> /\ Head(cs) = " " THEN lstrip(Tail(cs)) ELSE cs
RECURSIVE rstrip(_)
rstrip(cs) ==
    IF cs # <<>> /\ cs[Len(cs)] = " " THEN rstrip(SubSeq(cs, 1, Len(cs) - 1))
    ELSE cs
\* str.strip()
strip(text) == Join(rstrip(lstrip(Chars(text))))

RECURSIVE validate_unstripped_loop(_, _, _)
validate_unstripped_loop(categories, seen, unique_categories) ==
    IF categories = <<>> THEN unique_categories
    ELSE IF strip(Head(categories)) # "" /\ strip(Head(categories)) \notin seen
         THEN validate_unstripped_loop(Tail(categories),
                  seen \cup {strip(Head(categories))},
                  Append(unique_categories, Head(categories)))
         ELSE validate_unstripped_loop(Tail(categories), seen, unique_categories)
\* A faulty validate_categories, which C12 tells from the real one: the
\* entry is appended as given (cat) instead of trimmed (cat_clean).
validate_categories_unstripped(categories) ==
    validate_unstripped_loop(categories, {}, <<>>)

RECURSIVE validate_loop(_, _, _)
\* The loop of lines 62-66 over the entries still to read.
validate_loop(categories, seen, unique_categories) ==
    IF categories = <<>> THEN unique_categories
    ELSE IF strip(Head(categories)) # "" /\ strip(Head(categories)) \notin seen
         THEN validate_loop(Tail(categories),
                  seen \cup {strip(Head(categories))},
                  Append(unique_categories, strip(Head(categories))))
         ELSE validate_loop(Tail(categories), seen, unique_categories)

validate_categories(categories) ==
    IF categories = <<>> THEN <<>> ELSE validate_loop(categories, {}, <<>>)

\* The list both fallbacks write out.
DefaultCats == <<"Food", "Transport", "Entertainment", "Other">>

\* What a request for column A of the Config worksheet finds: the cells, or
\* a failure of the request.
Unreachable == [up |-> FALSE, col |-> <<>>]
ConfigCells == {"Category", "Food", " Food ", "  ", "Taxi"}
Sources ==
    {Unreachable} \cup
    { [up |-> TRUE, col |-> col] :
          col \in UNION { [1..k -> ConfigCells] : k \in 0..MaxConfigCells } }

\* Lines 76-77: the non-blank cells, trimmed, without the first of them.
skip_header(col) == IF Len(col) > 1 THEN Tail(col) ELSE <<>>
categories_of(cells) ==
    skip_header(SelectSeq([i \in DOMAIN cells |-> strip(cells[i])],
                          LAMBDA c : c # ""))

\* load_categories() when the request finds src
load_categories(src) ==
    IF ~src.up THEN DefaultCats
    ELSE validate_categories(categories_of(src.col))

\* initialize_categories(): connected is the outcome of
\* test_google_sheets_connection(), src what load_categories() then finds.
initialize_categories(connected, src) ==
    IF ~connected THEN DefaultCats
    ELSE IF load_categories(src) = <<>> THEN DefaultCats
    ELSE load_categories(src)

\* No validate_categories invocation.
NoRet == [made |-> FALSE, arg |-> <<>>, val |-> <<>>]

(***************************************************************************)
(* The record store: the "Data" worksheet behind the global `sheet`         *)
(***************************************************************************)
\* The header the bot's column order implies, in the two label sets
\* column_mapping accepts (the second stands for the Cyrillic labels).
EnglishHeader ==
    <<"Date", "Month", "Category", "Amount", "Currency", "Who", "Comment">>
RussianHeader ==
    <<"Data", "Mesyats", "Kategoriya", "Summa", "Valyuta", "Kto vnes",
      "Kommentariy">>

\* A numeric cell and a text cell of the Amount column.
NumCell(v) == [t |-> "num", v |-> v]
StrCell(s) == [t |-> "str", s |-> s]

\* A faulty sheet_append, which C3 tells from the real one: the request is
\* sent again after it succeeded.
sheet_append_twice(sh, row) == [sh EXCEPT !.rows = Append(Append(@, row), row)]

\* A faulty append, which C18 tells from the real one: the row is inserted
\* above the rows already there.
sheet_insert_first(sh, row) == [sh EXCEPT !.rows = <<row>> \o @]

\* sheet.append_row(row, value_input_option="USER_ENTERED")
sheet_append(sh, row) == [sh EXCEPT !.rows = Append(@, row)]

\* sheet.get_all_records(): one dict per data row, keyed by the header
\* labels; [] when the worksheet holds no data row.
get_all_records(sh) ==
    [i \in DOMAIN sh.rows |->
        [l \in Range(sh.header) |->
            sh.rows[i][CHOOSE j \in DOMAIN sh.header : sh.header[j] = l]]]

(***************************************************************************)
(* Rate lookup                                                             *)
(***************************************************************************)
\* currency_map.get(c, c)
currency_map(c) ==
    CASE c = "(R)" -> "RUB" [] c = "din" -> "RSD" [] c = "(E)" -> "EUR"
      [] c = "(Y)" -> "JPY" [] c = "$" -> "USD" [] OTHER -> c

\* data["rates"].get(to_cur) of the response for from_cur, counting 1/100;
\* 0 stands for a missing entry (None).
ApiRate(from_cur, to_cur) ==
    CASE from_cur = "RUB" /\ to_cur = "EUR" -> 1
      [] from_cur = "RUB" /\ to_cur = "JPY" -> 200
      [] from_cur = "RUB" /\ to_cur = "RSD" -> 125
      [] from_cur = "EUR" /\ to_cur = "RUB" -> 10000
      [] from_cur = "EUR" /\ to_cur = "JPY" -> 17500
      [] from_cur = "EUR" /\ to_cur = "RSD" -> 11700
      [] from_cur = "JPY" /\ to_cur = "RUB" -> 50
      [] from_cur = "JPY" /\ to_cur = "EUR" -> 1
      [] from_cur = "RSD" /\ to_cur = "RUB" -> 80
      [] from_cur = "RSD" /\ to_cur = "EUR" -> 1
      [] OTHER -> 0

\* get_exchange_rate(from_currency, to_currency); `up` is the set of API
\* codes whose request is answered with status 200.  The result counts
\* 1/100; 0 is None.
get_exchange_rate(from_currency, to_currency, up) ==
    IF from_currency = to_currency THEN 100
    ELSE LET from_cur == currency_map(from_currency)
             to_cur   == currency_map(to_currency)
         IN  IF from_cur \in up THEN ApiRate(from_cur, to_cur) ELSE 0

(***************************************************************************)
(* Stats engine: compute_stats                                             *)
(***************************************************************************)
column_mapping(l) ==
    CASE l \in {"Amount", "Summa"} -> "Amount"
      [] l \in {"Currency", "Valyuta"} -> "Currency"
      [] l \in {"Category", "Kategoriya"} -> "Category"
      [] l \in {"Date", "Data"} -> "Date"
      [] l \in {"Month", "Mesyats"} -> "Month"
      [] OTHER -> l

\* pd.DataFrame(records) followed by the rename loop: the columns and the
\* rows under the standard names.  No record, no column.
DataFrame(records) ==
    LET labels == IF records = <<>> THEN {} ELSE DOMAIN records[1]
        cols   == { column_mapping(l) : l \in labels }
    IN  [cols |-> cols,
         rows |-> [i \in DOMAIN records |->
                     [c \in cols |->
                        records[i][CHOOSE l \in labels : column_mapping(l) = c]]]]

\* pd.to_numeric(str(cell).replace(",", "."), errors="coerce"), NaN as 0
to_numeric(cell) ==
    IF cell.t = "num" THEN cell.v
    ELSE LET p == ParseFloat(ReplaceComma(Chars(cell.s)))
         IN  IF p.ok THEN p.val ELSE 0

amount_to_float(df) ==
    [df EXCEPT !.rows =
        [i \in DOMAIN df.rows |->
            [df.rows[i] EXCEPT !["Amount"] = to_numeric(@)]]]

\* df[df["Month"] == month]
filter_month(df, month) ==
    [df EXCEPT !.rows = SelectSeq(df.rows, LAMBDA r : r["Month"] = month)]

\* A faulty range test, which C23 tells from the real one: the end of the
\* range is excluded.
date_between_open(p, lo, hi) ==
    p.ok /\ DateLE(lo, p.dt) /\ DateLE(p.dt, hi) /\ p.dt # hi

\* df[(df["Date"] >= date_from_dt) & (df["Date"] <= date_to_dt)] after
\* to_datetime(errors="coerce"): an unparsable date is NaT and compares
\* False.
date_between(p, lo, hi) == p.ok /\ DateLE(lo, p.dt) /\ DateLE(p.dt, hi)
filter_between(df, lo, hi) ==
    [df EXCEPT !.rows =
        SelectSeq(df.rows,
            LAMBDA r : date_between(strptime_DATE_FMT(r["Date"]), lo, hi))]
filter_dates(df, date_from, date_to) ==
    filter_between(df, strptime_DATE_FMT(date_from).dt,
                   strptime_DATE_FMT(date_to).dt)

\* df[df["Category"] == cat]
filter_category(df, cat) ==
    [df EXCEPT !.rows = SelectSeq(df.rows, LAMBDA r : r["Category"] = cat)]

\* df.loc[mask, "Amount"].sum() with mask = df["Currency"] == currency
sum_of_currency(rows, currency) ==
    SumSeq([i \in DOMAIN rows |->
              IF rows[i]["Currency"] = currency THEN rows[i]["Amount"] ELSE 0])

\* the summaries compute_stats returns as text
NoData == [kind |-> "no_data"]
ColumnError(col) == [kind |-> "column_error", col |-> col]
RateFailed(currency, target) ==
    [kind |-> "rate_failed", from |-> currency, to |-> target]
NoDetails == [c \in {} |-> 0]

StatsResult(stats, details) ==
    [stats |-> stats, details |-> details, raised |-> FALSE]
\* an exception leaves compute_stats
StatsRaised(what) ==
    [stats |-> [kind |-> "exception", what |-> what], details |-> NoDetails,
     raised |-> TRUE]

RECURSIVE convert_loop_skipping(_, _, _, _, _)
\* A faulty conversion loop, which C5 tells from the real one: a currency
\* whose rate is unavailable is left unconverted and the loop goes on.
convert_loop_skipping(currencies, rows, details, target, up) ==
    IF currencies = <<>>
    THEN [ok |-> TRUE, rows |-> rows, details |-> details]
    ELSE LET currency == Head(currencies)
             rate     == get_exchange_rate(currency, target, up)
         IN  IF currency = target \/ rate = 0
             THEN convert_loop_skipping(Tail(currencies), rows, details,
                                        target, up)
             ELSE convert_loop_skipping(Tail(currencies),
                      [i \in DOMAIN rows |->
                          IF rows[i]["Currency"] = currency
                          THEN [rows[i] EXCEPT
                                  !["Amount"] = (@ * rate) \div 100,
                                  !["Currency"] = target]
                          ELSE rows[i]],
                      Put(details, currency,
                          [rate |-> rate,
                           original_amount |-> sum_of_currency(rows, currency),
                           converted_amount |->
                               (sum_of_currency(rows, currency) * rate) \div 100]),
                      target, up)

RECURSIVE convert_loop_unrewritten(_, _, _, _, _)
\* A faulty conversion loop, which C15 tells from the real one: the amounts
\* are multiplied by the rate but the rows keep their currency.
convert_loop_unrewritten(currencies, rows, details, target, up) ==
    IF currencies = <<>>
    THEN [ok |-> TRUE, rows |-> rows, details |-> details]
    ELSE LET currency == Head(currencies)
             rate     == get_exchange_rate(currency, target, up)
         IN  IF currency = target
             THEN convert_loop_unrewritten(Tail(currencies), rows, details,
                                           target, up)
             ELSE IF rate # 0
                  THEN convert_loop_unrewritten(Tail(currencies),
                           [i \in DOMAIN rows |->
                               IF rows[i]["Currency"] = currency
                               THEN [rows[i] EXCEPT
                                       !["Amount"] = (@ * rate) \div 100]
                               ELSE rows[i]],
                           Put(details, currency,
                               [rate |-> rate,
                                original_amount |->
                                    sum_of_currency(rows, currency),
                                converted_amount |->
                                    (sum_of_currency(rows, currency) * rate)
                                        \div 100]),
                           target, up)
                  ELSE [ok |-> FALSE, rows |-> rows, failed |-> currency]

RECURSIVE convert_loop(_, _, _, _, _)
\* The loop over original_currencies (lines 376-392): `rows` is
\* df_converted, `details` is conversion_details so far.
convert_loop(currencies, rows, details, target, up) ==
    IF currencies = <<>>
    THEN [ok |-> TRUE, rows |-> rows, details |-> details]
    ELSE LET currency == Head(currencies)
             rate     == get_exchange_rate(currency, target, up)
         IN  IF currency = target
             THEN convert_loop(Tail(currencies), rows, details, target, up)
             ELSE IF rate # 0
                  THEN LET original_amount == sum_of_currency(rows, currency)
                           converted ==
                               [i \in DOMAIN rows |->
                                   IF rows[i]["Currency"] = currency
                                   THEN [rows[i] EXCEPT
                                           !["Amount"] = (@ * rate) \div 100,
                                           !["Currency"] = target]
                                   ELSE rows[i]]
                       IN  convert_loop(Tail(currencies), converted,
                               Put(details, currency,
                                   [rate |-> rate,
                                    original_amount |-> original_amount,
                                    converted_amount |->
                                        (original_amount * rate) \div 100]),
                               target, up)
                  ELSE [ok |-> FALSE, rows |-> rows, failed |-> currency]

\* df.groupby("Currency")["Amount"].sum()
total_by_currency(rows) ==
    [c \in { rows[i]["Currency"] : i \in DOMAIN rows } |->
        sum_of_currency(rows, c)]

\* Lines 395-404: the grouped lines (one per currency, amount as shown) or
\* the single total.
summarize(rows, group_by_currency, convert_to_currency, details) ==
    IF group_by_currency
    THEN LET total == total_by_currency(rows)
         IN  StatsResult(
                 [kind |-> "grouped",
                  lines |-> [c \in DOMAIN total |-> Fmt2(total[c])]],
                 details)
    ELSE LET total_overall ==
                 SumSeq([i \in DOMAIN rows |-> rows[i]["Amount"]])
             currency ==
                 IF convert_to_currency # None THEN convert_to_currency
                 ELSE rows[1]["Currency"]
         IN  StatsResult(
                 [kind |-> "total", amt |-> Fmt2(total_overall),
                  cur |-> currency],
                 details)

\* Lines 348-361: the period filter.  err is the column whose absence
\* aborts, or None.
filter_period(df, a) ==
    IF a.month # None
    THEN IF "Month" \notin df.cols THEN [err |-> "Month", df |-> df]
         ELSE [err |-> None, df |-> filter_month(df, a.month)]
    ELSE IF a.date_from # None /\ a.date_to # None
         THEN IF "Date" \notin df.cols THEN [err |-> "Date", df |-> df]
              ELSE [err |-> None,
                    df |-> filter_dates(df, a.date_from, a.date_to)]
         ELSE [err |-> None, df |-> df]

\* Lines 363-366: the category filter, on the outcome of the period filter.
filter_by_cat(by_period, a) ==
    IF by_period.err # None THEN by_period
    ELSE IF a.cat # "All"
         THEN IF "Category" \notin by_period.df.cols
              THEN [err |-> "Category", df |-> by_period.df]
              ELSE [err |-> None, df |-> filter_category(by_period.df, a.cat)]
         ELSE by_period

\* Lines 348-366: the rows compute_stats aggregates.
filter_rows(df, a) == filter_by_cat(filter_period(df, a), a)

\* Lines 393-404 after the conversion loop returned c.
after_conversion(c, a) ==
    IF c.ok
    THEN summarize(c.rows, a.group_by_currency, a.convert_to_currency, c.details)
    ELSE StatsResult(RateFailed(c.failed, a.convert_to_currency), NoDetails)

\* Lines 368-404 on the filtered rows (f.df), or the abort on a missing
\* column (f.err).
stats_of_rows(f, a, io) ==
    IF f.err # None THEN StatsResult(ColumnError(f.err), NoDetails)
    ELSE IF f.df.rows = <<>> THEN StatsResult(NoData, NoDetails)
    ELSE IF "Currency" \notin f.df.cols THEN StatsRaised("KeyError")
    ELSE IF a.convert_to_currency # None
         THEN after_conversion(
                  convert_loop(
                      Unique([i \in DOMAIN f.df.rows |-> f.df.rows[i]["Currency"]]),
                      f.df.rows, NoDetails, a.convert_to_currency, io.rates),
                  a)
         ELSE summarize(f.df.rows, a.group_by_currency, a.convert_to_currency,
                        NoDetails)

\* Lines 340-404 on the frame df0 of line 316 after the rename loop.
stats_of_frame(df0, a, io) ==
    IF "Amount" \notin df0.cols THEN StatsResult(ColumnError("Amount"), NoDetails)
    ELSE stats_of_rows(filter_rows(amount_to_float(df0), a), a, io)

\* compute_stats(cat, month, date_from, date_to, group_by_currency,
\* convert_to_currency) on the worksheet sh; a holds the arguments, io the
\* answers of the outside world: io.store is FALSE when the store request
\* fails, io.rates is the set of API codes whose rate request succeeds.
compute_stats(sh, a, io) ==
    IF ~io.store THEN StatsRaised("store")
    ELSE stats_of_frame(DataFrame(get_all_records(sh)), a, io)

(***************************************************************************)
(* Updates and the texts users send                                        *)
(***************************************************************************)
TextUpdate(u, text) == [user |-> u, kind |-> "text", data |-> text]
CallbackUpdate(u, data) == [user |-> u, kind |-> "callback", data |-> data]
CommandUpdate(u, cmd) == [user |-> u, kind |-> "command", data |-> cmd]
NoUpdate == [user |-> "nobody", kind |-> "none", data |-> None]

ToStartTexts == {"(home) To start", "To start"}

ActionTexts == {"(money) Add expense", "(chart) Show statistics", "hello"}
\* The texts that begin a flow.
BeginTexts == {"(money) Add expense", "Add expense",
               "(chart) Show statistics", "Show statistics"}
CatTexts == {"Food"}
AmountTexts == {"1,5", "-5", "abc"}
CurTexts == {"(R)", "(E)"}
CommentTexts == {"lunch"}
DateTexts == {"31.07.2025", "abc"}
StatCatTexts == {"All categories", "Specific category", "Food"}
StatTypeTexts == {"(scroll) Last 3 records", "(calendar) Custom period",
                  "(calendar) By months", "hello"}
PeriodTexts == {"13.07.2025", "abc"}
MonthTexts == {"2025-07"}
GroupTexts == {"Yes", "No"}
ConvertTexts == {"(E)"}
DetailsTexts == {"Show details", "Done (thanks)"}
CallbackData == {"skip", "to_start", "today", "yesterday", "custom"}
CancelCommands == {"/cancel", "/stop"}

\* What the outside world answers during one handler invocation: whether
\* the worksheet answers, the currencies the rate API quotes, and whether
\* Telegram delivers the confirmation of a saved row. Telegram delivers in
\* IO; Undelivered is the answer of a step on which it does not.
IO == [store : BOOLEAN, rates : SUBSET {"RUB", "EUR"}, deliver : {TRUE}]
Undelivered == [store |-> TRUE, rates |-> {}, deliver |-> FALSE]
\* A handler that reaches neither the store nor the rate API.
Quiet == [store |-> TRUE, rates |-> {}, deliver |-> TRUE]

(***************************************************************************)
(* Dialogue controller: the handlers                                       *)
(***************************************************************************)
NoArgs == [cat |-> None, month |-> None, date_from |-> None,
           date_to |-> None, group_by_currency |-> TRUE,
           convert_to_currency |-> None]
\* No compute_stats invocation.
NoCall == [made |-> FALSE, args |-> NoArgs, io |-> Quiet,
           stats |-> [kind |-> "none"], details |-> NoDetails]

\* A faulty return, which C17 tells from the real one: user_data is one
\* dictionary shared by all users.
Returns_shared(u, d, next_state, msgs) ==
    /\ draft' = [v \in Users |-> d]
    /\ state' = [state EXCEPT ![u] = next_state]
    /\ sent' = msgs
    /\ exc' = FALSE
    /\ UNCHANGED <<CATS, config, ret>>

\* The handler of user u ran to its return: user_data is d, it returned
\* next_state, and it delivered msgs.
Returns(u, d, next_state, msgs) ==
    /\ draft' = [draft EXCEPT ![u] = d]
    /\ state' = [state EXCEPT ![u] = next_state]
    /\ sent' = msgs
    /\ exc' = FALSE
    /\ UNCHANGED <<CATS, config, ret>>

\* An exception left the handler of user u after it delivered msgs:
\* user_data is d, and ConversationHandler keeps the conversation's state.
Raises(u, d, msgs) ==
    /\ draft' = [draft EXCEPT ![u] = d]
    /\ state' = state
    /\ sent' = msgs
    /\ exc' = TRUE
    /\ UNCHANGED <<CATS, config, ret>>

\* context.user_data.clear(); await start(update, context);
\* return CHOOSE_ACTION
to_start(u) ==
    /\ Returns(u, EmptyDraft, CHOOSE_ACTION, <<"menu">>)
    /\ call' = NoCall
    /\ UNCHANGED <<sheet, flows>>

\* /start: the entry point, matched in every state (allow_reentry=True)
start(u) ==
    /\ ev' = CommandUpdate(u, "/start")
    /\ Returns(u, draft[u], CHOOSE_ACTION, <<"menu">>)
    /\ call' = NoCall
    /\ UNCHANGED <<sheet, flows>>

choose_action(u, text) ==
    /\ state[u] = CHOOSE_ACTION
    /\ text \in BeginTexts => flows < MaxFlows
    /\ ev' = TextUpdate(u, text)
    /\ IF text \in ToStartTexts THEN to_start(u)
       ELSE /\ IF text \in {"(money) Add expense", "Add expense"}
               THEN Returns(u, draft[u], CHOOSE_CAT, <<"ask_category">>)
               ELSE IF text \in {"(chart) Show statistics", "Show statistics"}
                    THEN Returns(u, draft[u], STAT_CAT, <<"ask_scope">>)
                    ELSE Returns(u, draft[u], CHOOSE_ACTION, <<"press_button">>)
            /\ flows' = IF text \in BeginTexts THEN flows + 1 ELSE flows
            /\ call' = NoCall
            /\ UNCHANGED sheet

choose_cat(u, text) ==
    /\ state[u] = CHOOSE_CAT
    /\ ev' = TextUpdate(u, text)
    /\ IF text \in ToStartTexts THEN to_start(u)
       ELSE /\ Returns(u, Put(draft[u], "cat", text), TYPING_AMT,
                       <<"ask_amount">>)
            /\ call' = NoCall
            /\ UNCHANGED <<sheet, flows>>

type_amount(u, text) ==
    /\ state[u] = TYPING_AMT
    /\ ev' = TextUpdate(u, text)
    /\ IF text \in ToStartTexts THEN to_start(u)
       ELSE /\ LET amt == ParseFloat(ReplaceComma(Chars(text)))
               IN  IF ~amt.ok
                   THEN Returns(u, draft[u], TYPING_AMT, <<"need_number">>)
                   ELSE Returns(u, Put(draft[u], "amt", amt.val), CHOOSE_CUR,
                                <<"ask_currency">>)
            /\ call' = NoCall
            /\ UNCHANGED <<sheet, flows>>

\* get_user_info(update)[0]
get_user_info(u) ==
    IF u \in DOMAIN TELEGRAM_USERS THEN TELEGRAM_USERS[u] ELSE username[u]

\* A faulty choose_cur, which C27 tells from the real one: the spender is
\* not stored.
choose_cur_no_spender(u, text) ==
    /\ state[u] = CHOOSE_CUR
    /\ ev' = TextUpdate(u, text)
    /\ IF text \in ToStartTexts THEN to_start(u)
       ELSE /\ Returns(u, Put(draft[u], "cur", text), TYPING_CMNT,
                       <<"ask_comment">>)
            /\ call' = NoCall
            /\ UNCHANGED <<sheet, flows>>

choose_cur(u, text) ==
    /\ state[u] = CHOOSE_CUR
    /\ ev' = TextUpdate(u, text)
    /\ IF text \in ToStartTexts THEN to_start(u)
       ELSE /\ Returns(u,
                  Put(Put(draft[u], "cur", text), "spender", get_user_info(u)),
                  TYPING_CMNT, <<"ask_comment">>)
            /\ call' = NoCall
            /\ UNCHANGED <<sheet, flows>>

\* A faulty type_comment, which C28 tells from the real one: "skip" leaves
\* the comment of user_data as it is.
type_comment_keeping(u, upd) ==
    /\ state[u] = TYPING_CMNT
    /\ upd.user = u
    /\ upd.kind \in {"text", "callback"}
    /\ upd.kind = "callback" => upd.data \in {"skip", "to_start"}
    /\ ev' = upd
    /\ IF upd.data \in ToStartTexts \cup {"to_start"} THEN to_start(u)
       ELSE /\ Returns(u,
                  IF upd.kind = "callback" THEN draft[u]
                  ELSE Put(draft[u], "comment", upd.data),
                  CHOOSE_DT, <<"ask_date">>)
            /\ call' = NoCall
            /\ UNCHANGED <<sheet, flows>>

\* type_comment handles a text message and the callbacks "skip" and
\* "to_start" (the pattern of its CallbackQueryHandler).
type_comment(u, upd) ==
    /\ state[u] = TYPING_CMNT
    /\ upd.user = u
    /\ upd.kind \in {"text", "callback"}
    /\ upd.kind = "callback" => upd.data \in {"skip", "to_start"}
    /\ ev' = upd
    /\ IF upd.kind = "callback"
       THEN IF upd.data = "to_start" THEN to_start(u)
            ELSE /\ Returns(u, Put(draft[u], "comment", ""), CHOOSE_DT,
                            <<"ask_date">>)
                 /\ call' = NoCall
                 /\ UNCHANGED <<sheet, flows>>
       ELSE IF upd.data \in ToStartTexts THEN to_start(u)
            ELSE /\ Returns(u, Put(draft[u], "comment", upd.data), CHOOSE_DT,
                            <<"ask_date">>)
                 /\ call' = NoCall
                 /\ UNCHANGED <<sheet, flows>>

\* save_row with the category written before the month.
save_row_category_first(u, date_str, io) ==
    /\ call' = NoCall
    /\ UNCHANGED flows
    /\ IF ~({"cat", "amt", "cur", "spender"} \subseteq DOMAIN draft[u])
       THEN /\ Raises(u, draft[u], <<>>)
            /\ UNCHANGED sheet
       ELSE IF ~io.store
       THEN /\ Raises(u, draft[u], <<>>)
            /\ UNCHANGED sheet
       ELSE /\ sheet' = sheet_append(sheet,
                   <<date_str, draft[u]["cat"], month_of(date_str),
                     NumCell(draft[u]["amt"]), draft[u]["cur"],
                     draft[u]["spender"], Get(draft[u], "comment", "")>>)
            /\ IF ~io.deliver
               THEN Raises(u, draft[u], <<>>)
               ELSE Returns(u, draft[u], CHOOSE_ACTION, <<"saved", "menu">>)

\* save_row(update, context, date_str), and the caller's return CHOOSE_ACTION
save_row(u, date_str, io) ==
    /\ call' = NoCall
    /\ UNCHANGED flows
    /\ IF ~({"cat", "amt", "cur", "spender"} \subseteq DOMAIN draft[u])
       THEN /\ Raises(u, draft[u], <<>>)          \* KeyError
            /\ UNCHANGED sheet
       ELSE IF ~io.store
       THEN /\ Raises(u, draft[u], <<>>)          \* sheet_append raises
            /\ UNCHANGED sheet
       ELSE LET month_str == month_of(date_str)
                cat  == draft[u]["cat"]
                amt  == draft[u]["amt"]
                cur  == draft[u]["cur"]
                who  == draft[u]["spender"]
                cmnt == Get(draft[u], "comment", "")
            IN  /\ sheet' = sheet_append(sheet,
                       <<date_str, month_str, cat, NumCell(amt), cur, who, cmnt>>)
                /\ IF ~io.deliver            \* edit_message_text raises
                   THEN Raises(u, draft[u], <<>>)
                   ELSE Returns(u, draft[u], CHOOSE_ACTION,
                                <<"saved", "menu">>)

\* CallbackQueryHandler(choose_dt): every callback query in CHOOSE_DT
choose_dt(u, data, io) ==
    /\ state[u] = CHOOSE_DT
    /\ ev' = CallbackUpdate(u, data)
    /\ IF data = "to_start" THEN to_start(u)
       ELSE IF data = "today"
            THEN save_row(u, strftime_DATE_FMT(Now), io)
            ELSE IF data = "yesterday"
                 THEN save_row(u, strftime_DATE_FMT(DayBefore(Now)), io)
                 ELSE /\ Returns(u, draft[u], TYPING_DT, <<"ask_custom_date">>)
                      /\ call' = NoCall
                      /\ UNCHANGED <<sheet, flows>>

\* A faulty type_dt, which C19 tells from the real one: the parse is not
\* guarded, and its exception leaves the handler.
type_dt_unguarded(u, text, io) ==
    /\ state[u] = TYPING_DT
    /\ ev' = TextUpdate(u, text)
    /\ IF text \in ToStartTexts THEN to_start(u)
       ELSE IF ~dparser_parse(text).ok
            THEN /\ Raises(u, draft[u], <<>>)
                 /\ call' = NoCall
                 /\ UNCHANGED <<sheet, flows>>
            ELSE save_row(u, strftime_DATE_FMT(dparser_parse(text).dt), io)

type_dt(u, text, io) ==
    /\ state[u] = TYPING_DT
    /\ ev' = TextUpdate(u, text)
    /\ IF text \in ToStartTexts THEN to_start(u)
       ELSE LET parsed == dparser_parse(text)
            IN  IF ~parsed.ok
                THEN /\ Returns(u, draft[u], TYPING_DT, <<"bad_date">>)
                     /\ call' = NoCall
                     /\ UNCHANGED <<sheet, flows>>
                ELSE save_row(u, strftime_DATE_FMT(parsed.dt), io)

(***************************************************************************)
(* Dialogue controller: the statistics flow                                *)
(***************************************************************************)
stat_cat(u, text) ==
    /\ state[u] = STAT_CAT
    /\ ev' = TextUpdate(u, text)
    /\ IF text \in ToStartTexts THEN to_start(u)
       ELSE /\ IF text = "Specific category"
               THEN Returns(u, draft[u], STAT_CAT, <<"ask_category">>)
               ELSE Returns(u,
                        Put(draft[u], "stat_cat",
                            IF text = "All categories" THEN "All" ELSE text),
                        STAT_TYPE, <<"ask_stat_type">>)
            /\ call' = NoCall
            /\ UNCHANGED <<sheet, flows>>

\* get_last_n_records catches every exception of its store requests and
\* returns a text either way.
stat_type(u, text, io) ==
    /\ state[u] = STAT_TYPE
    /\ text # "(scroll) Last 3 records" => io = Quiet
    /\ ev' = TextUpdate(u, text)
    /\ IF text \in ToStartTexts THEN to_start(u)
       ELSE /\ IF text = "(scroll) Last 3 records"
               THEN Returns(u, draft[u], CHOOSE_ACTION,
                            <<IF io.store THEN "last_records"
                                          ELSE "last_records_error", "menu">>)
               ELSE IF text = "(calendar) Custom period"
                    THEN Returns(u, draft[u], STAT_DATE_FROM, <<"ask_date_from">>)
                    ELSE IF text = "(calendar) By months"
                         THEN Returns(u, draft[u], STAT_MONTH, <<"ask_month">>)
                         ELSE Returns(u, draft[u], STAT_TYPE, <<"invalid_option">>)
            /\ call' = NoCall
            /\ UNCHANGED <<sheet, flows>>

stat_date_from(u, text) ==
    /\ state[u] = STAT_DATE_FROM
    /\ ev' = TextUpdate(u, text)
    /\ IF text \in ToStartTexts THEN to_start(u)
       ELSE /\ LET parsed == dparser_parse(text)
               IN  IF parsed.ok
                   THEN Returns(u,
                            Put(draft[u], "stat_date_from",
                                strftime_DATE_FMT(parsed.dt)),
                            STAT_DATE_TO, <<"ask_date_to">>)
                   ELSE Returns(u, draft[u], STAT_DATE_FROM, <<"bad_date">>)
            /\ call' = NoCall
            /\ UNCHANGED <<sheet, flows>>

stat_date_to(u, text) ==
    /\ state[u] = STAT_DATE_TO
    /\ ev' = TextUpdate(u, text)
    /\ IF text \in ToStartTexts THEN to_start(u)
       ELSE /\ LET parsed == dparser_parse(text)
               IN  IF parsed.ok
                   THEN Returns(u,
                            Put(draft[u], "stat_date_to",
                                strftime_DATE_FMT(parsed.dt)),
                            STAT_GROUP_CURRENCY, <<"ask_group">>)
                   ELSE Returns(u, draft[u], STAT_DATE_TO, <<"bad_date">>)
            /\ call' = NoCall
            /\ UNCHANGED <<sheet, flows>>

\* A faulty stat_month, which C29 tells from the real one: the month is
\* not stored.
stat_month_unstored(u, text) ==
    /\ state[u] = STAT_MONTH
    /\ ev' = TextUpdate(u, text)
    /\ IF text \in ToStartTexts THEN to_start(u)
       ELSE /\ Returns(u, draft[u], STAT_GROUP_CURRENCY, <<"ask_group">>)
            /\ call' = NoCall
            /\ UNCHANGED <<sheet, flows>>

stat_month(u, text) ==
    /\ state[u] = STAT_MONTH
    /\ ev' = TextUpdate(u, text)
    /\ IF text \in ToStartTexts THEN to_start(u)
       ELSE /\ Returns(u, Put(draft[u], "stat_month", text),
                       STAT_GROUP_CURRENCY, <<"ask_group">>)
            /\ call' = NoCall
            /\ UNCHANGED <<sheet, flows>>

\* Lines 846-870 of show_statistics_result: the arguments it passes to
\* compute_stats from user_data d, and whether d holds a period.
stats_args(d) ==
    IF Get(d, "stat_month", None) # None
    THEN [cat |-> Get(d, "stat_cat", "All"),
          month |-> Get(d, "stat_month", None),
          date_from |-> None, date_to |-> None,
          group_by_currency |-> Get(d, "stat_group_currency", TRUE),
          convert_to_currency |-> Get(d, "stat_convert_to", None)]
    ELSE [cat |-> Get(d, "stat_cat", "All"),
          month |-> None,
          date_from |-> Get(d, "stat_date_from", None),
          date_to |-> Get(d, "stat_date_to", None),
          group_by_currency |-> Get(d, "stat_group_currency", TRUE),
          convert_to_currency |-> Get(d, "stat_convert_to", None)]

has_period(d) ==
    \/ Get(d, "stat_month", None) # None
    \/ Get(d, "stat_date_from", None) # None /\ Get(d, "stat_date_to", None) # None

\* A faulty outcome, which C20 tells from the real one: the conversion
\* details are delivered together with the summary.
stats_outcome_expanded(d, ask_details, made, io, r) ==
    [call    |-> [made |-> made, args |-> IF made THEN stats_args(d) ELSE NoArgs,
                  io |-> IF made THEN io ELSE Quiet,
                  stats |-> r.stats, details |-> r.details],
     raised  |-> r.raised,
     draft   |-> IF r.details # NoDetails
                 THEN Put(d, "conversion_details", r.details) ELSE d,
     sent    |-> IF r.raised THEN <<>>
                 ELSE IF r.details # NoDetails
                      THEN <<"stats", "details", "menu">>
                      ELSE <<"stats", "menu">>]

\* Lines 872-893 of show_statistics_result once compute_stats answered r:
\* user_data afterwards, the messages delivered, and whether an exception
\* leaves it.
stats_outcome(d, ask_details, made, io, r) ==
    [call    |-> [made |-> made, args |-> IF made THEN stats_args(d) ELSE NoArgs,
                  io |-> IF made THEN io ELSE Quiet,
                  stats |-> r.stats, details |-> r.details],
     raised  |-> r.raised,
     draft   |-> IF r.details # NoDetails
                 THEN Put(d, "conversion_details", r.details) ELSE d,
     sent    |-> IF r.raised THEN <<>>
                 ELSE IF ask_details /\ r.details # NoDetails
                      THEN <<"stats", "ask_details">>
                      ELSE <<"stats", "menu">>]

\* show_statistics_result(update, context, ask_details) on user_data d
show_statistics_result(d, ask_details, io) ==
    stats_outcome(d, ask_details, has_period(d), io,
        IF has_period(d) THEN compute_stats(sheet, stats_args(d), io)
        ELSE StatsResult([kind |-> "period_error"], NoDetails))

\* The handler of user u called show_statistics_result, which came to r,
\* and then returns next_state.
after_statistics(u, r, next_state) ==
    /\ call' = r.call
    /\ IF r.raised THEN Raises(u, r.draft, r.sent)
       ELSE Returns(u, r.draft, next_state, r.sent)

\* get_currencies_from_sheet catches every exception of its store request
\* and falls back to CURS; its result only fills the keyboard.
stat_group_currency(u, text, io) ==
    /\ state[u] = STAT_GROUP_CURRENCY
    /\ text \in ToStartTexts => io = Quiet
    /\ text # "Yes" => io.rates = {}
    /\ ev' = TextUpdate(u, text)
    /\ IF text \in ToStartTexts THEN to_start(u)
       ELSE /\ UNCHANGED <<sheet, flows>>
            /\ IF text = "Yes"
               THEN after_statistics(u,
                        show_statistics_result(
                            Put(draft[u], "stat_group_currency", TRUE), FALSE, io),
                        CHOOSE_ACTION)
               ELSE /\ call' = NoCall
                    /\ Returns(u, Put(draft[u], "stat_group_currency", FALSE),
                               STAT_CONVERT_CURRENCY, <<"ask_convert">>)

\* A faulty stat_convert_currency, which C30 tells from the real one: the
\* chosen currency is not stored.
stat_convert_currency_unstored(u, text, io) ==
    /\ state[u] = STAT_CONVERT_CURRENCY
    /\ text \in ToStartTexts => io = Quiet
    /\ ev' = TextUpdate(u, text)
    /\ IF text \in ToStartTexts THEN to_start(u)
       ELSE /\ UNCHANGED <<sheet, flows>>
            /\ after_statistics(u,
                   show_statistics_result(draft[u], TRUE, io),
                   STAT_SHOW_DETAILS)

stat_convert_currency(u, text, io) ==
    /\ state[u] = STAT_CONVERT_CURRENCY
    /\ text \in ToStartTexts => io = Quiet
    /\ ev' = TextUpdate(u, text)
    /\ IF text \in ToStartTexts THEN to_start(u)
       ELSE /\ UNCHANGED <<sheet, flows>>
            /\ after_statistics(u,
                   show_statistics_result(
                       Put(draft[u], "stat_convert_to", text), TRUE, io),
                   STAT_SHOW_DETAILS)

stat_show_details(u, text) ==
    /\ state[u] = STAT_SHOW_DETAILS
    /\ ev' = TextUpdate(u, text)
    /\ IF text \in ToStartTexts THEN to_start(u)
       ELSE /\ IF text = "Show details"
               THEN IF Get(draft[u], "conversion_details", NoDetails) # NoDetails
                    THEN Returns(u, draft[u], CHOOSE_ACTION, <<"details", "menu">>)
                    ELSE Returns(u, draft[u], CHOOSE_ACTION,
                                 <<"no_details", "menu">>)
               ELSE Returns(u, draft[u], CHOOSE_ACTION, <<"menu">>)
            /\ call' = NoCall
            /\ UNCHANGED <<sheet, flows>>

\* A faulty cancel, which C10 tells from the real one: user_data is not
\* cleared.
cancel_keeps_draft(u, cmd) ==
    /\ state[u] # NO_CONVERSATION
    /\ ev' = CommandUpdate(u, cmd)
    /\ Returns(u, draft[u], CHOOSE_ACTION, <<"cancelled", "menu">>)
    /\ call' = NoCall
    /\ UNCHANGED <<sheet, flows>>

\* /cancel and /stop: the fallbacks, reached in every state of a
\* conversation (no state's handler takes a command)
cancel(u, cmd) ==
    /\ state[u] # NO_CONVERSATION
    /\ ev' = CommandUpdate(u, cmd)
    /\ Returns(u, EmptyDraft, CHOOSE_ACTION, <<"cancelled", "menu">>)
    /\ call' = NoCall
    /\ UNCHANGED <<sheet, flows>>

\* ConversationHandler finds no handler for the update: no entry point, no
\* handler of the current state and no fallback matches it.
Unmatched(s, upd) ==
    CASE upd.kind = "text" -> s \in {NO_CONVERSATION, CHOOSE_DT}
      [] upd.kind = "callback" ->
            /\ s # CHOOSE_DT
            /\ ~(s = TYPING_CMNT /\ upd.data \in {"skip", "to_start"})
      [] upd.kind = "command" ->
            s = NO_CONVERSATION /\ upd.data \in CancelCommands

\* An update no handler takes changes nothing.
ignored(u, upd) ==
    /\ upd.user = u
    /\ Unmatched(state[u], upd)
    /\ ev' = upd
    /\ sent' = <<>>
    /\ exc' = FALSE
    /\ call' = NoCall
    /\ UNCHANGED <<state, draft, sheet, flows, CATS, config, ret>>

(***************************************************************************)
(* The dialogue's specification                                            *)
(***************************************************************************)
\* The texts a user sends in state s: the "to start" button, and the
\* buttons and free texts the state's prompt asks for.
TextsIn(s) ==
    ToStartTexts \cup
    ( CASE s = CHOOSE_ACTION -> ActionTexts
        [] s = CHOOSE_CAT -> CatTexts
        [] s = TYPING_AMT -> AmountTexts
        [] s = CHOOSE_CUR -> CurTexts
        [] s = TYPING_CMNT -> CommentTexts
        [] s = TYPING_DT -> DateTexts
        [] s = STAT_CAT -> StatCatTexts
        [] s = STAT_TYPE -> StatTypeTexts
        [] s \in {STAT_DATE_FROM, STAT_DATE_TO} -> PeriodTexts
        [] s = STAT_MONTH -> MonthTexts
        [] s = STAT_GROUP_CURRENCY -> GroupTexts
        [] s = STAT_CONVERT_CURRENCY -> ConvertTexts
        [] s = STAT_SHOW_DETAILS -> DetailsTexts
        [] OTHER -> {} )

\* The updates that reach no handler, as far as the model sends them: the
\* "to start" button of the reply keyboard while the date buttons are
\* shown, the "to start" button of an earlier inline keyboard while a date
\* is typed, and anything but /start before the conversation begins.
StrayUpdates(u) ==
    CASE state[u] = CHOOSE_DT -> { TextUpdate(u, "(home) To start") }
      [] state[u] = TYPING_DT -> { CallbackUpdate(u, "to_start") }
      [] state[u] = NO_CONVERSATION ->
            { TextUpdate(u, "(home) To start"), CommandUpdate(u, "/cancel") }
      [] OTHER -> {}

\* The users who converse in Spec.
Solo == {"u1"}

EmptySheet == [header |-> EnglishHeader, rows |-> <<>>]

Init ==
    /\ state = [u \in Users |-> NO_CONVERSATION]
    /\ draft = [u \in Users |-> EmptyDraft]
    /\ sheet = EmptySheet
    /\ ev = NoUpdate
    /\ sent = <<>>
    /\ exc = FALSE
    /\ call = NoCall
    /\ flows = 0
    /\ CATS = initialize_categories(FALSE, Unreachable)
    /\ config = Unreachable
    /\ ret = NoRet

Next ==
    \/ \E u \in Solo : start(u)
    \/ \E u \in Solo : \E text \in TextsIn(state[u]) : choose_action(u, text)
    \/ \E u \in Solo : \E text \in TextsIn(state[u]) : choose_cat(u, text)
    \/ \E u \in Solo : \E text \in TextsIn(state[u]) : type_amount(u, text)
    \/ \E u \in Solo : \E text \in TextsIn(state[u]) : choose_cur(u, text)
    \/ \E u \in Solo : \E text \in TextsIn(state[u]) :
          type_comment(u, TextUpdate(u, text))
    \/ \E u \in Solo : \E data \in {"skip", "to_start"} :
          type_comment(u, CallbackUpdate(u, data))
    \/ \E u \in Solo : \E data \in CallbackData : \E io \in IO :
          /\ io.rates = {}
          /\ data \notin {"today", "yesterday"} => io = Quiet
          /\ choose_dt(u, data, io)
    \/ \E u \in Solo : \E text \in TextsIn(state[u]) : \E io \in IO :
          /\ io.rates = {}
          /\ ~dparser_parse(text).ok => io = Quiet
          /\ type_dt(u, text, io)
    \/ \E u \in Solo : \E text \in TextsIn(state[u]) : stat_cat(u, text)
    \/ \E u \in Solo : \E text \in TextsIn(state[u]) : \E io \in IO :
          /\ io.rates = {}
          /\ stat_type(u, text, io)
    \/ \E u \in Solo : \E text \in TextsIn(state[u]) : stat_date_from(u, text)
    \/ \E u \in Solo : \E text \in TextsIn(state[u]) : stat_date_to(u, text)
    \/ \E u \in Solo : \E text \in TextsIn(state[u]) : stat_month(u, text)
    \/ \E u \in Solo : \E text \in TextsIn(state[u]) : \E io \in IO :
          stat_group_currency(u, text, io)
    \/ \E u \in Solo : \E text \in TextsIn(state[u]) : \E io \in IO :
          stat_convert_currency(u, text, io)
    \/ \E u \in Solo : \E text \in TextsIn(state[u]) : stat_show_details(u, text)
    \/ \E u \in Solo : \E cmd \in CancelCommands : cancel(u, cmd)
    \/ \E u \in Solo : \E upd \in StrayUpdates(u) : ignored(u, upd)

Spec == Init /\ [][Next]_vars

(***************************************************************************)
(* The statistics engine on its own: compute_stats applied to worksheets   *)
(* the bot did not necessarily write itself                                *)
(***************************************************************************)
MaxSnapshotRows == 3    \* data rows of a worksheet snapshot

\* Rows as they stand in a worksheet: written by save_row (a number in the
\* Amount cell) or typed by hand (a text with a decimal comma, a text that
\* is no number).
SampleRows ==
    { <<"01.07.2025", "2025-07", "Food", NumCell(120000), "(R)", "Azat", "">>,
      <<"13.07.2025", "2025-07", "Taxi", NumCell(10000), "(E)", "Azat", "lunch">>,
      <<"2025-07-31", "2025-07", "Food", StrCell("1,5"), "(Y)", "lisa_tg", "">>,
      <<"1.8.2025", "2025-08", "Food", StrCell("abc"), "(R)", "Azat", "">> }

\* The worksheet sh without the column labelled l.
without_column(sh, l) ==
    LET j == CHOOSE k \in DOMAIN sh.header : sh.header[k] = l
        drop(row) == [i \in 1..(Len(row) - 1) |->
                        IF i < j THEN row[i] ELSE row[i + 1]]
    IN  [header |-> drop(sh.header),
         rows   |-> [i \in DOMAIN sh.rows |-> drop(sh.rows[i])]]

\* The worksheets compute_stats may meet: the English or the transliterated
\* labels, or a worksheet that lacks the Month column.
Snapshots ==
    LET seqs == UNION { [1..k -> SampleRows] : k \in 0..MaxSnapshotRows }
    IN  { [header |-> h, rows |-> rows] :
              h \in {EnglishHeader, RussianHeader}, rows \in seqs }
        \cup { without_column([header |-> EnglishHeader, rows |-> rows], "Month") :
                  rows \in seqs }

\* The arguments of a compute_stats call.
StatsArgs ==
    { [cat |-> c, month |-> p[1], date_from |-> p[2], date_to |-> p[3],
       group_by_currency |-> g, convert_to_currency |-> t] :
          c \in {"All", "Food"},
          p \in { <<"2025-07", None, None>>, <<"2025-08", None, None>>,
                  <<None, "01.07.2025", "13.07.2025">>, <<None, None, None>> },
          g \in BOOLEAN,
          t \in {None, "(E)", "din"} }

\* compute_stats(...) is called once on the snapshot, with arguments a while
\* the outside world answers io, and comes to r.
stats_call(a, io, r) ==
    /\ ~call.made
    /\ call' = [made |-> TRUE, args |-> a, io |-> io, stats |-> r.stats,
                details |-> r.details]
    /\ exc' = r.raised
    /\ UNCHANGED <<state, draft, sheet, ev, sent, flows, CATS, config, ret>>

InitStats ==
    /\ state = [u \in Users |-> NO_CONVERSATION]
    /\ draft = [u \in Users |-> EmptyDraft]
    /\ sheet \in Snapshots
    /\ ev = NoUpdate
    /\ sent = <<>>
    /\ exc = FALSE
    /\ call = NoCall
    /\ flows = 0
    /\ CATS = initialize_categories(FALSE, Unreachable)
    /\ config = Unreachable
    /\ ret = NoRet

\* No rate is asked for once the store request has failed.
NextStats ==
    \E a \in StatsArgs : \E io \in IO :
        /\ ~io.store => io.rates = {}
        /\ stats_call(a, io, compute_stats(sheet, a, io))

SpecStats == InitStats /\ [][NextStats]_vars

(***************************************************************************)
(* The dialogue on a worksheet that already holds a record when the bot    *)
(* starts (main opens the existing worksheet)                              *)
(***************************************************************************)
StockedSheet ==
    [header |-> EnglishHeader,
     rows |-> << <<"01.07.2025", "2025-07", "Food", NumCell(120000), "(R)",
                   "Azat", "">> >>]

InitStocked ==
    /\ state = [u \in Users |-> NO_CONVERSATION]
    /\ draft = [u \in Users |-> EmptyDraft]
    /\ sheet = StockedSheet
    /\ ev = NoUpdate
    /\ sent = <<>>
    /\ exc = FALSE
    /\ call = NoCall
    /\ flows = 0
    /\ CATS = initialize_categories(FALSE, Unreachable)
    /\ config = Unreachable
    /\ ret = NoRet

SpecStocked == InitStocked /\ [][Next]_vars

(***************************************************************************)
(* The dialogue when Telegram may fail to deliver the confirmation of a    *)
(* saved row: edit_message_text / reply_text raises after sheet_append,    *)
(* and ConversationHandler keeps the state of the conversation. The        *)
(* confirmation is lost only while the worksheet holds fewer than MaxLost   *)
(* rows.                                                                   *)
(***************************************************************************)
NextLossy ==
    \/ Next
    \/ \E u \in Solo : \E data \in {"today", "yesterday"} :
          /\ Len(sheet.rows) < MaxLost
          /\ choose_dt(u, data, Undelivered)
    \/ \E u \in Solo : \E text \in TextsIn(state[u]) :
          /\ Len(sheet.rows) < MaxLost
          /\ dparser_parse(text).ok
          /\ type_dt(u, text, Undelivered)

SpecLossy == Init /\ [][NextLossy]_vars

(***************************************************************************)
(* Two users conversing: the handlers of both run one at a time, in any    *)
(* order (the Application handles updates sequentially)                    *)
(***************************************************************************)
\* The texts the two users send: those of TextsIn that lead to a different
\* handler branch, one spelling of each.
TextsBoth(s) ==
    CASE s = CHOOSE_CUR -> {"(R)", "(home) To start"}
      [] s = STAT_CAT -> {"All categories", "(home) To start"}
      [] OTHER -> TextsIn(s) \ {"To start", "hello", "-5"}

\* What the store and the rate service answer them.
IOBoth == { io \in IO : io.rates \in {{}, {"RUB"}} }

NextMulti ==
    \/ \E u \in Users : start(u)
    \/ \E u \in Users : \E text \in TextsBoth(state[u]) : choose_action(u, text)
    \/ \E u \in Users : \E text \in TextsBoth(state[u]) : choose_cat(u, text)
    \/ \E u \in Users : \E text \in TextsBoth(state[u]) : type_amount(u, text)
    \/ \E u \in Users : \E text \in TextsBoth(state[u]) : choose_cur(u, text)
    \/ \E u \in Users : \E text \in TextsBoth(state[u]) :
          type_comment(u, TextUpdate(u, text))
    \/ \E u \in Users : \E data \in {"skip", "to_start"} :
          type_comment(u, CallbackUpdate(u, data))
    \/ \E u \in Users : \E data \in CallbackData : \E io \in IOBoth :
          /\ io.rates = {}
          /\ data \notin {"today", "yesterday"} => io = Quiet
          /\ choose_dt(u, data, io)
    \/ \E u \in Users : \E text \in TextsBoth(state[u]) : \E io \in IOBoth :
          /\ io.rates = {}
          /\ ~dparser_parse(text).ok => io = Quiet
          /\ type_dt(u, text, io)
    \/ \E u \in Users : \E text \in TextsBoth(state[u]) : stat_cat(u, text)
    \/ \E u \in Users : \E text \in TextsBoth(state[u]) : \E io \in IOBoth :
          /\ io.rates = {}
          /\ stat_type(u, text, io)
    \/ \E u \in Users : \E text \in TextsBoth(state[u]) : stat_date_from(u, text)
    \/ \E u \in Users : \E text \in TextsBoth(state[u]) : stat_date_to(u, text)
    \/ \E u \in Users : \E text \in TextsBoth(state[u]) : stat_month(u, text)
    \/ \E u \in Users : \E text \in TextsBoth(state[u]) : \E io \in IOBoth :
          stat_group_currency(u, text, io)
    \/ \E u \in Users : \E text \in TextsBoth(state[u]) : \E io \in IOBoth :
          stat_convert_currency(u, text, io)
    \/ \E u \in Users : \E text \in TextsBoth(state[u]) : stat_show_details(u, text)
    \/ \E u \in Users : \E cmd \in CancelCommands : cancel(u, cmd)
    \/ \E u \in Users : \E upd \in StrayUpdates(u) : ignored(u, upd)

SpecMulti == Init /\ [][NextMulti]_vars

(***************************************************************************)
(* The statistics engine asked twice: the same compute_stats call repeated *)
(* on the same worksheet, the rate service answering each call on its own  *)
(***************************************************************************)
\* compute_stats is called again with the arguments of the first call; the
\* outside world now answers io, and the call comes to r.  `flows` counts
\* the repetitions.
stats_again(io, r) ==
    /\ call.made
    /\ flows < 1
    /\ flows' = flows + 1
    /\ call' = [made |-> TRUE, args |-> call.args, io |-> io,
                stats |-> r.stats, details |-> r.details]
    /\ exc' = r.raised
    /\ UNCHANGED <<state, draft, sheet, ev, sent, CATS, config, ret>>

NextRepeat ==
    \/ \E a \in StatsArgs : \E io \in IO :
          /\ ~io.store => io.rates = {}
          /\ stats_call(a, io, compute_stats(sheet, a, io))
    \/ \E io \in IO :
          /\ ~io.store => io.rates = {}
          /\ stats_again(io, compute_stats(sheet, call.args, io))

SpecRepeat == InitStats /\ [][NextRepeat]_vars

(***************************************************************************)
(* The category list on its own: start-up, /reloadcats and /categories     *)
(***************************************************************************)
\* /reloadcats, handled outside the conversation: its state is kept.  src
\* is what load_categories() finds.
reload_cats(u, src) ==
    /\ ev' = CommandUpdate(u, "/reloadcats")
    /\ CATS' = load_categories(src)
    /\ config' = src
    /\ sent' = IF load_categories(src) # <<>>
               THEN IF CATS = load_categories(src)
                    THEN <<"cats_up_to_date">> ELSE <<"cats_updated">>
               ELSE <<"cats_failed">>
    /\ exc' = FALSE
    /\ call' = NoCall
    /\ ret' = NoRet
    /\ UNCHANGED <<state, draft, sheet, flows>>

\* /categories
show_categories(u) ==
    /\ ev' = CommandUpdate(u, "/categories")
    /\ sent' = IF CATS # <<>> THEN <<"categories">> ELSE <<"cats_not_loaded">>
    /\ exc' = FALSE
    /\ call' = NoCall
    /\ ret' = NoRet
    /\ UNCHANGED <<state, draft, sheet, flows, CATS, config>>

\* Process start: CATS = initialize_categories()
InitCats ==
    /\ state = [u \in Users |-> NO_CONVERSATION]
    /\ draft = [u \in Users |-> EmptyDraft]
    /\ sheet = EmptySheet
    /\ ev = NoUpdate
    /\ sent = <<>>
    /\ exc = FALSE
    /\ call = NoCall
    /\ flows = 0
    /\ ret = NoRet
    /\ \E connected \in BOOLEAN : \E src \in Sources :
          /\ ~connected => src = Unreachable
          /\ CATS = initialize_categories(connected, src)
          /\ config = src

NextCats ==
    \/ \E u \in Solo : \E src \in Sources : reload_cats(u, src)
    \/ \E u \in Solo : show_categories(u)

SpecCats == InitCats /\ [][NextCats]_vars

(***************************************************************************)
(* validate_categories on its own                                          *)
(***************************************************************************)
\* The lists validate_categories is given.
InputLists == UNION { [1..k -> ConfigCells] : k \in 0..MaxConfigCells }

\* validate_categories(ret.arg) is called once.
validate_call ==
    /\ ~ret.made
    /\ ret' = [made |-> TRUE, arg |-> ret.arg,
               val |-> validate_categories(ret.arg)]
    /\ UNCHANGED <<state, draft, sheet, ev, sent, exc, call, flows, CATS, config>>

InitValidate ==
    /\ state = [u \in Users |-> NO_CONVERSATION]
    /\ draft = [u \in Users |-> EmptyDraft]
    /\ sheet = EmptySheet
    /\ ev = NoUpdate
    /\ sent = <<>>
    /\ exc = FALSE
    /\ call = NoCall
    /\ flows = 0
    /\ CATS = initialize_categories(FALSE, Unreachable)
    /\ config = Unreachable
    /\ \E categories \in InputLists :
          ret = [made |-> FALSE, arg |-> categories, val |-> <<>>]

NextValidate == validate_call

SpecValidate == InitValidate /\ [][NextValidate]_vars

(***************************************************************************)
(* Properties of the dialogue (Spec)                                       *)
(*                                                                         *)
(* A step of Spec handles the update ev'; the unprimed variables are the   *)
(* state the update is received in.                                        *)
(***************************************************************************)
\* upd is the "to start" token.
IsToStart(upd) ==
    \/ upd.kind = "text" /\ upd.data \in ToStartTexts
    \/ upd.kind = "callback" /\ upd.data = "to_start"

\* The step is a commit transition of user u: a date shortcut in ChooseDate
\* or a parsable date in EnterCustomDate.
IsCommit(u) ==
    /\ ev'.user = u
    /\ \/ /\ state[u] = CHOOSE_DT
          /\ ev'.kind = "callback"
          /\ ev'.data \in {"today", "yesterday"}
       \/ /\ state[u] = TYPING_DT
          /\ ev'.kind = "text"
          /\ ev'.data \notin ToStartTexts
          /\ dparser_parse(ev'.data).ok

\* The date a commit transition resolves its update to.
CommitDate(upd) ==
    IF upd.kind = "callback"
    THEN IF upd.data = "today" THEN Now ELSE DayBefore(Now)
    ELSE dparser_parse(upd.data).dt

\* C1: in every dialogue state other than ChooseAction, receiving the
\* "to start" token (the text of the button, or the callback to_start)
\* empties the user's draft and makes ChooseAction the next state.
C1_ToStartResets ==
    [][\A u \in Users :
          ( /\ ev'.user = u
            /\ IsToStart(ev')
            /\ state[u] \in DialogueStates \ {CHOOSE_ACTION} )
          => (draft'[u] = EmptyDraft /\ state'[u] = CHOOSE_ACTION)]_vars

\* C2: every commit transition whose store request succeeds appends the
\* record, then leaves the user's draft empty and the state ChooseAction.
C2_CommitClearsDraft ==
    [][\A u \in Users :
          (IsCommit(u) /\ ~exc')
          => /\ Len(sheet'.rows) = Len(sheet.rows) + 1
             /\ draft'[u] = EmptyDraft
             /\ state'[u] = CHOOSE_ACTION]_vars

\* C3: every transition appends at most one row to the store and changes
\* nothing else of it, and only a commit transition appends a row: every
\* other transition leaves the store unchanged.
C3_OneAppendOnlyOnCommit ==
    [][/\ sheet'.header = sheet.header
       /\ \/ sheet'.rows = sheet.rows
          \/ /\ Len(sheet'.rows) = Len(sheet.rows) + 1
             /\ SubSeq(sheet'.rows, 1, Len(sheet.rows)) = sheet.rows
       /\ sheet' # sheet => \E u \in Users : IsCommit(u)]_vars

\* C3's case: a second row has just been committed with the "today"
\* button.
C3_Witness ==
    /\ Len(sheet.rows) = 2
    /\ ev.kind = "callback" /\ ev.data = "today"
    /\ sent = <<"saved", "menu">>

\* C4: in EnterAmount a text that is no non-negative decimal (after ","
\* became ".") keeps the state and the draft; a non-negative decimal stores
\* the amount and advances to ChooseCurrency.
C4_AmountValidated ==
    [][\A u \in Users :
          ( /\ ev'.user = u
            /\ state[u] = TYPING_AMT
            /\ ev'.kind = "text"
            /\ ev'.data \notin ToStartTexts )
          => LET amt == ParseFloat(ReplaceComma(Chars(ev'.data)))
             IN  IF amt.ok /\ amt.val >= 0
                 THEN /\ state'[u] = CHOOSE_CUR
                      /\ draft'[u] = Put(draft[u], "amt", amt.val)
                 ELSE /\ state'[u] = TYPING_AMT
                      /\ draft'[u] = draft[u]]_vars

\* The line of currency cur in the answer to the query "category All, the
\* given month, grouped by currency, no conversion" on worksheet sh:
\* whether there is one, and the amount it shows (counting 1/100).
monthly_line(r, cur) ==
    IF r.stats.kind = "grouped" /\ cur \in DOMAIN r.stats.lines
    THEN [shown |-> TRUE, amt |-> r.stats.lines[cur]]
    ELSE [shown |-> FALSE, amt |-> 0]

MonthlyQuery(sh, month, cur) ==
    monthly_line(
        compute_stats(sh,
            [cat |-> "All", month |-> month, date_from |-> None,
             date_to |-> None, group_by_currency |-> TRUE,
             convert_to_currency |-> None],
            [store |-> TRUE, rates |-> {}, deliver |-> TRUE]),
        cur)

\* The subtotals of C7 before and after a commit of amount amt.
ExactlyLarger(before, after, amt) ==
    /\ after.shown
    /\ after.amt = before.amt + Fmt2(amt)

\* C7: after a commit of amount A in currency X on date D, the query for
\* category All, the month of D, grouped by currency, without conversion
\* shows for X exactly A more than the same query showed before the commit
\* (A itself when X had no line).
C7_CommitShowsInMonth ==
    [][\A u \in Users :
          (IsCommit(u) /\ ~exc')
          => ExactlyLarger(
                 MonthlyQuery(sheet, strftime_MONTH_FMT(CommitDate(ev')),
                              draft[u]["cur"]),
                 MonthlyQuery(sheet', strftime_MONTH_FMT(CommitDate(ev')),
                              draft[u]["cur"]),
                 draft[u]["amt"])]_vars

\* C7's case: a commit has just added a row to a month and a currency that
\* already held one.
C7_Witness ==
    /\ Len(sheet.rows) = 2
    /\ sent = <<"saved", "menu">>
    /\ sheet.rows[1][2] = sheet.rows[2][2]
    /\ sheet.rows[1][5] = sheet.rows[2][5]
    /\ MonthlyQuery(sheet, sheet.rows[2][2], sheet.rows[2][5]).amt =
           Fmt2(sheet.rows[1][4].v) + Fmt2(sheet.rows[2][4].v)

\* C8: when a statistics result is delivered without the details prompt (a
\* grouped result, or a conversion query whose result carries no details),
\* and when the user answers the details prompt, the next state is
\* ChooseAction and the user's draft is empty.
C8_StatsEndClearsDraft ==
    [][\A u \in Users :
          ( /\ ev'.user = u
            /\ ev'.kind = "text"
            /\ ~exc'
            /\ \/ /\ state[u] \in {STAT_GROUP_CURRENCY, STAT_CONVERT_CURRENCY}
                  /\ sent' = <<"stats", "menu">>
               \/ /\ state[u] = STAT_SHOW_DETAILS
                  /\ ev'.data \in DetailsTexts )
          => (state'[u] = CHOOSE_ACTION /\ draft'[u] = EmptyDraft)]_vars

\* C9: when compute_stats reports an unavailable rate or a missing column
\* during a transition from ChooseCurrencyGrouping or ChooseConvertCurrency,
\* the message is delivered and the next state is ChooseAction.
C9_StatsFailureEndsFlow ==
    [][\A u \in Users :
          ( /\ ev'.user = u
            /\ state[u] \in {STAT_GROUP_CURRENCY, STAT_CONVERT_CURRENCY}
            /\ call'.made
            /\ call'.stats.kind \in {"rate_failed", "column_error"} )
          => (sent' # <<>> /\ sent'[1] = "stats" /\ state'[u] = CHOOSE_ACTION)]_vars

\* C10: /cancel and /stop, received in any dialogue state, empty the user's
\* draft, leave the store unchanged and make ChooseAction the next state.
C10_CancelResets ==
    [][\A u \in Users :
          ( /\ ev'.user = u
            /\ ev'.kind = "command"
            /\ ev'.data \in CancelCommands
            /\ state[u] \in DialogueStates )
          => /\ draft'[u] = EmptyDraft
             /\ sheet' = sheet
             /\ state'[u] = CHOOSE_ACTION]_vars

\* C10's case: /stop has just been handled while the store holds a row.
C10_Witness ==
    /\ ev.kind = "command" /\ ev.data = "/stop"
    /\ sent = <<"cancelled", "menu">>
    /\ sheet.rows # <<>>
    /\ \E u \in Users : ev.user = u /\ state[u] = CHOOSE_ACTION

(***************************************************************************)
(* Properties of the statistics engine (SpecStats)                         *)
(*                                                                         *)
(* call holds the arguments, the outside world's answers and the result    *)
(* of the compute_stats call made on the snapshot in sheet.                *)
(***************************************************************************)
\* The cell of row i of worksheet sh under the column that column_mapping
\* names col.
Cell(sh, i, col) ==
    sh.rows[i][CHOOSE j \in DOMAIN sh.header : column_mapping(sh.header[j]) = col]

\* The worksheet has the columns the filters read.
HasFilterColumns(sh) ==
    {"Date", "Month", "Category", "Amount"} \subseteq
        { column_mapping(sh.header[j]) : j \in DOMAIN sh.header }

\* The data rows of sh that the category and period of arguments a select.
Matching(sh, a) ==
    { i \in DOMAIN sh.rows :
        /\ a.cat # "All" => Cell(sh, i, "Category") = a.cat
        /\ a.month # None => Cell(sh, i, "Month") = a.month
        /\ (a.month = None /\ a.date_from # None /\ a.date_to # None) =>
              date_between(strptime_DATE_FMT(Cell(sh, i, "Date")),
                           strptime_DATE_FMT(a.date_from).dt,
                           strptime_DATE_FMT(a.date_to).dt) }

\* The source currencies of the selected rows, other than the target.
SourceCurrencies(sh, a) ==
    { Cell(sh, i, "Currency") : i \in Matching(sh, a) }
        \ {a.convert_to_currency}

\* The call of the last step converts to a target currency and needs the
\* rate of at least one source currency, all columns being there.
NeedsRates ==
    /\ call.made
    /\ call.io.store
    /\ HasFilterColumns(sheet)
    /\ call.args.convert_to_currency # None
    /\ SourceCurrencies(sheet, call.args) # {}

\* C5: when a target currency is requested and the rate of at least one
\* source currency of the filtered rows is unavailable, compute_stats
\* returns the failure text and no conversion details, whichever currencies
\* were converted before.
C5_AllOrNothing ==
    ( /\ NeedsRates
      /\ \E c \in SourceCurrencies(sheet, call.args) :
            get_exchange_rate(c, call.args.convert_to_currency, call.io.rates) = 0 )
    => /\ call.stats.kind = "rate_failed"
       /\ call.details = NoDetails
       /\ ~exc

\* C5's case: the call failed on the rate of one currency while the rate
\* of a currency met earlier in the rows was available.
C5_Witness ==
    /\ NeedsRates
    /\ call.stats.kind = "rate_failed"
    /\ \E i, j \in Matching(sheet, call.args) :
          /\ i < j
          /\ Cell(sheet, j, "Currency") = call.stats.from
          /\ Cell(sheet, i, "Currency") \in SourceCurrencies(sheet, call.args)
          /\ get_exchange_rate(Cell(sheet, i, "Currency"),
                 call.args.convert_to_currency, call.io.rates) # 0

\* C6: for every snapshot, a store without any record included, and every
\* category and period that select no row, compute_stats returns the
\* "no data" text and no conversion details, and no error.
C6_NoDataOnZeroRows ==
    ( /\ call.made
      /\ call.io.store
      /\ HasFilterColumns(sheet)
      /\ Matching(sheet, call.args) = {} )
    => /\ call.stats = NoData
       /\ call.details = NoDetails
       /\ ~exc

(***************************************************************************)
(* Properties of the category list (SpecCats, SpecValidate)                *)
(***************************************************************************)
\* The source holds no category: no non-blank cell below the first one.
SourceEmpty(src) ==
    src.up /\ \A i \in DOMAIN src.col : i > 1 => strip(src.col[i]) = ""

\* C11: whenever the most recent load (at process start or by /reloadcats)
\* found the category source unreachable or empty, CATS is the default
\* list; and CATS is never empty.
C11_FallbackToDefault ==
    /\ (~config.up \/ SourceEmpty(config)) => CATS = DefaultCats
    /\ CATS # <<>>

\* The distinct trimmed non-blank entries of list in the order of their
\* first occurrence, told by position: the entry at i counts iff it is not
\* blank and no earlier entry trims to the same text.
FirstOccurrences(list) ==
    { i \in DOMAIN list :
        /\ strip(list[i]) # ""
        /\ \A j \in DOMAIN list : j < i => strip(list[j]) # strip(list[i]) }

\* C12: validate_categories returns the trimmed non-blank entries without
\* duplicates, each at the rank of its first occurrence; the result has no
\* duplicate and no blank, and validating it again returns it unchanged.
C12_ValidateCategories ==
    ret.made =>
        /\ Len(ret.val) = Cardinality(FirstOccurrences(ret.arg))
        /\ \A i \in FirstOccurrences(ret.arg) :
              ret.val[Cardinality({ j \in FirstOccurrences(ret.arg) : j <= i })]
                  = strip(ret.arg[i])
        /\ \A i, j \in DOMAIN ret.val : i # j => ret.val[i] # ret.val[j]
        /\ \A i \in DOMAIN ret.val : ret.val[i] # "" /\ strip(ret.val[i]) = ret.val[i]
        /\ validate_categories(ret.val) = ret.val

\* C12's case: a list with a padded duplicate and a blank entry was
\* validated, and a later distinct entry kept its rank.
C12_Witness ==
    /\ ret.made
    /\ ret.arg = <<" Food ", "Food", "Taxi">>
    /\ ret.val = <<"Food", "Taxi">>

(***************************************************************************)
(* Properties of the appended rows                                         *)
(***************************************************************************)
\* month_text is "YYYY-MM" for the year and month of the calendar day
\* written date_text ("DD.MM.YYYY").
IsYearMonthOf(month_text, date_text) ==
    \E dt \in Calendar :
        /\ date_text = Pad2(dt.d) \o "." \o Pad2(dt.m) \o "." \o ToString(dt.y)
        /\ month_text = ToString(dt.y) \o "-" \o Pad2(dt.m)

\* C13: every row a commit appends is (date, month, category, amount,
\* currency, spender, comment) taken from the resolved date and the draft,
\* whether the date came from "today", "yesterday" or a typed date; and in
\* every row of the store the month is the year-month of the row's date.
C13_RowLayout ==
    [][/\ \A u \in Users :
             (IsCommit(u) /\ sheet' # sheet)
             => sheet'.rows[Len(sheet'.rows)] =
                   << strftime_DATE_FMT(CommitDate(ev')),
                      ToString(CommitDate(ev').y) \o "-"
                          \o Pad2(CommitDate(ev').m),
                      draft[u]["cat"], NumCell(draft[u]["amt"]),
                      draft[u]["cur"], draft[u]["spender"],
                      Get(draft[u], "comment", "") >>
       /\ \A i \in DOMAIN sheet'.rows :
             /\ Len(sheet'.rows[i]) = 7
             /\ IsYearMonthOf(sheet'.rows[i][2], sheet'.rows[i][1])]_vars

\* C13's case: a row dated today (month 2025-08) is followed by a row whose
\* date was typed (31.07.2025, month 2025-07) and has just been committed.
C13_Witness ==
    /\ Len(sheet.rows) = 2
    /\ ev.kind = "text" /\ sent = <<"saved", "menu">>
    /\ sheet.rows[1][1] = strftime_DATE_FMT(Now)
    /\ sheet.rows[1][2] = "2025-08"
    /\ sheet.rows[2][1] = "31.07.2025"
    /\ sheet.rows[2][2] = "2025-07"

(***************************************************************************)
(* Properties of repeated statistics requests (SpecRepeat)                 *)
(***************************************************************************)
\* C14: a statistics request repeated with the same category, period,
\* grouping and target currency on an unchanged store, the store answering
\* both times, gives the same summary text; and no request changes the
\* store.
C14_StatsIdempotent ==
    [][/\ sheet' = sheet
       /\ ( /\ call.made /\ call'.made
            /\ call'.args = call.args
            /\ call.io.store /\ call'.io.store )
          => call'.stats = call.stats]_vars

(***************************************************************************)
(* Properties of the conversion (SpecStats)                                *)
(***************************************************************************)
\* The sum of the amounts of the selected rows of sh in currency c.
SubtotalOver(sh, rows, c) ==
    SumSeq([i \in DOMAIN sh.rows |->
              IF i \in rows /\ Cell(sh, i, "Currency") = c
              THEN to_numeric(Cell(sh, i, "Amount")) ELSE 0])

\* The same over the rows the arguments a select.
Subtotal(sh, a, c) == SubtotalOver(sh, Matching(sh, a), c)

\* The amount of c converted at the rate from c to the target of a.
ConvertedOver(sh, rows, a, c, up) ==
    (SubtotalOver(sh, rows, c)
        * get_exchange_rate(c, a.convert_to_currency, up)) \div 100

\* The same over the rows the arguments a select.
Converted(sh, a, c, up) == ConvertedOver(sh, Matching(sh, a), a, c, up)

\* The sum of Converted over the currencies of the set cs.
RECURSIVE ConvertedSum(_, _, _, _, _)
ConvertedSum(sh, rows, a, cs, up) ==
    IF cs = {} THEN 0
    ELSE LET c == CHOOSE x \in cs : TRUE
         IN  ConvertedOver(sh, rows, a, c, up)
                + ConvertedSum(sh, rows, a, cs \ {c}, up)

\* The call of the last step selected some row, asked for a target
\* currency, and every rate it needed was available.
ConvertsAll ==
    /\ call.made
    /\ call.io.store
    /\ HasFilterColumns(sheet)
    /\ call.args.convert_to_currency # None
    /\ Matching(sheet, call.args) # {}
    /\ \A c \in SourceCurrencies(sheet, call.args) :
          get_exchange_rate(c, call.args.convert_to_currency,
                            call.io.rates) # 0

\* The total the claim gives: the rows already in the target currency plus
\* every other currency's subtotal at its rate.
ClaimedTotalOver(rows) ==
    SubtotalOver(sheet, rows, call.args.convert_to_currency)
        + ConvertedSum(sheet, rows, call.args,
                       { Cell(sheet, i, "Currency") : i \in rows }
                           \ {call.args.convert_to_currency},
                       call.io.rates)

\* The result and the details of the call are those the claim gives for
\* the selected rows, their source currencies src and the total.
ConvertedAs(rows, src, total) ==
    /\ call.stats.kind \in {"grouped", "total"}
    /\ call.stats.kind = "grouped" =>
          /\ DOMAIN call.stats.lines = {call.args.convert_to_currency}
          /\ call.stats.lines[call.args.convert_to_currency] = Fmt2(total)
    /\ call.stats.kind = "total" =>
          /\ call.stats.cur = call.args.convert_to_currency
          /\ call.stats.amt = Fmt2(total)
    /\ DOMAIN call.details = src
    /\ \A c \in src :
          /\ call.details[c].rate =
                get_exchange_rate(c, call.args.convert_to_currency,
                                  call.io.rates)
          /\ call.details[c].original_amount = SubtotalOver(sheet, rows, c)
          /\ call.details[c].converted_amount =
                ConvertedOver(sheet, rows, call.args, c, call.io.rates)

\* C15: with a target currency T and every needed rate available, the
\* result names T only, its amount is the sum of the T rows plus
\* rate(S,T) x subtotal(S) over the source currencies S, and the details
\* hold one entry per source currency S # T (none for T) with the rate
\* used, the original subtotal and original x rate.
C15_ConversionTotals ==
    ConvertsAll
    => /\ ~exc
       /\ ConvertedAs(Matching(sheet, call.args),
                      SourceCurrencies(sheet, call.args),
                      ClaimedTotalOver(Matching(sheet, call.args)))

\* C15's case: 12.00 (R) and 1.00 (E) converted to (E) at 0.01 gave the
\* grouped line (E) 1.12 and one details entry, for (R).
C15_Witness ==
    /\ ConvertsAll
    /\ call.args.convert_to_currency = "(E)"
    /\ call.stats.kind = "grouped"
    /\ call.stats.lines["(E)"] = 112
    /\ DOMAIN call.details = {"(R)"}
    /\ call.details["(R)"] =
          [rate |-> 1, original_amount |-> 120000, converted_amount |-> 1200]

(***************************************************************************)
(* Properties of failures (Spec)                                           *)
(***************************************************************************)
\* The step of user u asked the store for something and the store did not
\* answer: a commit with a complete draft that appended nothing, or a
\* compute_stats call whose get_all_records failed.
StoreFailed(u) ==
    \/ /\ IsCommit(u)
       /\ {"cat", "amt", "cur", "spender"} \subseteq DOMAIN draft[u]
       /\ sheet' = sheet
    \/ /\ call'.made
       /\ ~call'.io.store

\* C16: when the store is unreachable during a commit or a statistics
\* request, the handler catches the failure, sends the user a message and
\* the next state is ChooseAction; no exception leaves the handler.
C16_StoreFailureCaught ==
    [][\A u \in Users :
          (ev'.user = u /\ StoreFailed(u))
          => /\ ~exc'
             /\ sent' # <<>>
             /\ state'[u] = CHOOSE_ACTION]_vars

(***************************************************************************)
(* Properties of two users conversing (SpecMulti)                          *)
(***************************************************************************)
\* C17: the handling of an update of one user, whatever its outcome (a
\* validation error, a failed statistics request, a commit, "to start"),
\* leaves the dialogue state and the draft of every other user unchanged.
C17_OtherUsersUntouched ==
    [][\A u, v \in Users :
          (ev'.user = u /\ v # u)
          => /\ state'[v] = state[v]
             /\ draft'[v] = draft[v]]_vars

\* C17's case: a statistics request of u1 has just failed with an
\* exception while u2 is choosing the date of an expense.
C17_Witness ==
    /\ ev.user = "u1"
    /\ call.made /\ exc
    /\ state["u2"] = CHOOSE_DT
    /\ {"cat", "amt", "cur"} \subseteq DOMAIN draft["u2"]

\* C18: whatever the order of the two users' commits, every step leaves
\* the rows already in the store where they were, unchanged, and a commit
\* whose append succeeds adds exactly one row at the end, holding that
\* user's date and draft.
C18_AppendOnly ==
    [][/\ sheet'.header = sheet.header
       /\ Len(sheet'.rows) >= Len(sheet.rows)
       /\ \A i \in DOMAIN sheet.rows : sheet'.rows[i] = sheet.rows[i]
       /\ \A u \in Users :
             (IsCommit(u) /\ ~exc')
             => /\ Len(sheet'.rows) = Len(sheet.rows) + 1
                /\ sheet'.rows[Len(sheet'.rows)] =
                      << strftime_DATE_FMT(CommitDate(ev')),
                         month_of(strftime_DATE_FMT(CommitDate(ev'))),
                         draft[u]["cat"], NumCell(draft[u]["amt"]),
                         draft[u]["cur"], get_user_info(u),
                         Get(draft[u], "comment", "") >>]_vars

\* C18's case: the store holds a row of each user, the second one just
\* committed by u1 after u2's.
C18_Witness ==
    /\ Len(sheet.rows) = 2
    /\ sheet.rows[1][6] = get_user_info("u2")
    /\ sheet.rows[2][6] = get_user_info("u1")
    /\ ev.user = "u1"
    /\ sent = <<"saved", "menu">>

(***************************************************************************)
(* Properties of the date prompts and of the conversion details (Spec)     *)
(***************************************************************************)
DateStates == {TYPING_DT, STAT_DATE_FROM, STAT_DATE_TO}

\* C19: a text that is no date, entered where a date is asked for (the
\* custom date of an expense, the start or the end of a period), is
\* answered with the error prompt in the same state; the draft and the
\* store stay as they were and no exception leaves the handler.
C19_BadDateReprompts ==
    [][\A u \in Users :
          ( /\ ev'.user = u
            /\ state[u] \in DateStates
            /\ ev'.kind = "text"
            /\ ev'.data \notin ToStartTexts
            /\ ~dparser_parse(ev'.data).ok )
          => /\ state'[u] = state[u]
             /\ sent' = <<"bad_date">>
             /\ draft' = draft
             /\ sheet' = sheet
             /\ ~exc']_vars

\* C19's case: a text that is no date has just been refused as the custom
\* date of an expense whose draft is complete.
C19_Witness ==
    /\ state["u1"] = TYPING_DT
    /\ ev = TextUpdate("u1", "abc")
    /\ sent = <<"bad_date">>
    /\ {"cat", "amt", "cur", "spender", "comment"} \subseteq DOMAIN draft["u1"]

\* C20: the conversion details are sent only by a step that handles the
\* text "Show details" in ShowDetailsPrompt; no other step, the one that
\* delivers the summary included, sends them.
C20_DetailsOnlyOnRequest ==
    [][("details" \in Range(sent'))
          => \E u \in Users :
                /\ ev' = TextUpdate(u, "Show details")
                /\ state[u] = STAT_SHOW_DETAILS]_vars

\* C20's case: a converted summary was delivered with the prompt, and the
\* details have just been sent on "Show details".
C20_Witness ==
    /\ ev = TextUpdate("u1", "Show details")
    /\ sent = <<"details", "menu">>
    /\ state["u1"] = CHOOSE_ACTION
    /\ "conversion_details" \in DOMAIN draft["u1"]

(***************************************************************************)
(* Properties of the arguments the dialogue passes to compute_stats (Spec) *)
(***************************************************************************)
\* user_data d holds a month key; it holds both ends of a date range.
HasMonth(d) == Get(d, "stat_month", None) # None
HasRange(d) ==
    Get(d, "stat_date_from", None) # None /\ Get(d, "stat_date_to", None) # None

\* C21: whenever a handler calls compute_stats, the user's draft holds
\* exactly one period selection, a month key or a date range and never
\* both, and the period passed is the one the draft holds: the month with
\* no dates, or the dates with no month.
C21_OnePeriodSelected ==
    [][\A u \in Users :
          (ev'.user = u /\ call'.made)
          => /\ HasMonth(draft'[u]) # HasRange(draft'[u])
             /\ HasMonth(draft'[u]) =>
                   /\ call'.args.month = draft'[u]["stat_month"]
                   /\ call'.args.date_from = None
                   /\ call'.args.date_to = None
             /\ HasRange(draft'[u]) =>
                   /\ call'.args.month = None
                   /\ call'.args.date_from = draft'[u]["stat_date_from"]
                   /\ call'.args.date_to = draft'[u]["stat_date_to"]]_vars

(***************************************************************************)
(* Properties of load_categories (SpecCats)                                *)
(***************************************************************************)
\* The cells of rows 2 onward of column A.
BelowHeader(col) == IF col = <<>> THEN <<>> ELSE Tail(col)

\* C22: whatever column A of the Config worksheet holds, a load that
\* reaches it returns the trimmed, non-blank, de-duplicated values of rows
\* 2 onward in their order: row 1 is the only row skipped, also when its
\* cell is blank.
C22_OnlyHeaderSkipped ==
    [][(ev'.data = "/reloadcats" /\ config'.up)
          => CATS' = validate_categories(BelowHeader(config'.col))]_vars

(***************************************************************************)
(* Properties of the rows compute_stats aggregates (SpecStats)             *)
(***************************************************************************)
\* The calendar day written text, padded or not; the empty set when text
\* is no date in the format DD.MM.YYYY.
DaysWritten(text) ==
    { dt \in Calendar :
        \/ text = Pad2(dt.d) \o "." \o Pad2(dt.m) \o "." \o ToString(dt.y)
        \/ text = ToString(dt.d) \o "." \o ToString(dt.m) \o "."
                      \o ToString(dt.y) }

\* Day a is not after day b.
NotAfter(a, b) ==
    \/ a.y < b.y
    \/ a.y = b.y /\ a.m < b.m
    \/ a.y = b.y /\ a.m = b.m /\ a.d <= b.d

\* Row i of worksheet sh matches the period of arguments a.
InPeriod(sh, i, a) ==
    IF a.month # None THEN Cell(sh, i, "Month") = a.month
    ELSE IF a.date_from # None /\ a.date_to # None
    THEN \E dt \in DaysWritten(Cell(sh, i, "Date")) :
            /\ \E lo \in DaysWritten(a.date_from) : NotAfter(lo, dt)
            /\ \E hi \in DaysWritten(a.date_to) : NotAfter(dt, hi)
    ELSE TRUE

\* The rows of sh the claim says compute_stats(a) aggregates.
Selected(sh, a) ==
    { i \in DOMAIN sh.rows :
        /\ a.cat = "All" \/ Cell(sh, i, "Category") = a.cat
        /\ InPeriod(sh, i, a) }

\* The rows compute_stats holds after its filters, on the worksheet and
\* the arguments of the call.
Aggregated == 
    filter_rows(amount_to_float(DataFrame(get_all_records(sheet))), call.args)

\* The frame before the filters.
Unfiltered == amount_to_float(DataFrame(get_all_records(sheet))).rows

\* The filters returned agg, the rows sel of the frame unf in their order,
\* and the result of the call is built from those rows.
FilteredAs(agg, sel, unf) ==
    /\ agg.err = None
    /\ Len(agg.df.rows) = Cardinality(sel)
    /\ \A i \in sel :
          agg.df.rows[Cardinality({ j \in sel : j <= i })] = unf[i]
    /\ (call.stats.kind = "no_data") = (sel = {})
    /\ (call.stats.kind = "grouped" /\ call.args.convert_to_currency = None)
          => DOMAIN call.stats.lines = { Cell(sheet, i, "Currency") : i \in sel }

\* C23: the rows compute_stats aggregates are exactly the rows of the
\* snapshot that match the period (the month key, or a parsable date
\* within the range, both ends included) and the category ("All" matches
\* every row), in their order; a row whose date does not parse is left out
\* of a date-range query and no error is raised; on a worksheet that holds
\* records the result is "no data" exactly when no row matches.
C23_FilteredRows ==
    (call.made /\ call.io.store /\ HasFilterColumns(sheet) /\ sheet.rows # <<>>)
    => /\ ~exc
       /\ FilteredAs(Aggregated, Selected(sheet, call.args), Unfiltered)

\* C23's case: a date-range query on rows dated at the start of the range,
\* at its end, and with a date that does not parse kept the first two.
C23_Witness ==
    /\ call.made /\ call.io.store /\ HasFilterColumns(sheet)
    /\ call.args.date_from = "01.07.2025" /\ call.args.date_to = "13.07.2025"
    /\ call.args.month = None /\ call.args.cat = "All"
    /\ Len(sheet.rows) = 3
    /\ Cell(sheet, 1, "Date") = "2025-07-31"
    /\ Cell(sheet, 2, "Date") = "13.07.2025"
    /\ Cell(sheet, 3, "Date") = "01.07.2025"
    /\ Selected(sheet, call.args) = {2, 3}
    /\ call.stats.kind = "grouped"
    /\ DOMAIN call.stats.lines = {"(E)", "(R)"}

\* The currency the amount of row i is in when compute_stats adds it up:
\* the target currency after a conversion, the row's own otherwise.
SummedCurrency(sh, i, a) ==
    IF a.convert_to_currency # None THEN a.convert_to_currency
    ELSE Cell(sh, i, "Currency")

\* C24: grouped, compute_stats returns one line per distinct currency of
\* the filtered rows, carrying the sum of that currency's amounts;
\* ungrouped, it returns one total whose currency label is the currency of
\* every amount in the sum, with or without a target currency.
C24_TotalsPerCurrency ==
    (call.made /\ call.io.store /\ HasFilterColumns(sheet) /\ sheet.rows # <<>>)
    => /\ call.stats.kind = "grouped" =>
             /\ DOMAIN call.stats.lines =
                   { SummedCurrency(sheet, i, call.args) :
                        i \in Selected(sheet, call.args) }
             /\ call.args.convert_to_currency = None =>
                   \A c \in DOMAIN call.stats.lines :
                      call.stats.lines[c] = Fmt2(Subtotal(sheet, call.args, c))
       /\ call.stats.kind = "total" =>
             \A i \in Selected(sheet, call.args) :
                SummedCurrency(sheet, i, call.args) = call.stats.cur

(***************************************************************************)
(* Properties of a session of several statistics flows (Spec)              *)
(***************************************************************************)
\* C25: when the user answers "Yes" to "Group by currencies?", the
\* statistics are computed grouped and with no target currency, whatever
\* conversion the user asked for earlier in the session.
C25_GroupedMeansUnconverted ==
    [][\A u \in Users :
          ( /\ state[u] = STAT_GROUP_CURRENCY
            /\ ev' = TextUpdate(u, "Yes")
            /\ call'.made )
          => /\ call'.args.group_by_currency
             /\ call'.args.convert_to_currency = None]_vars

\* C26: the conversion details sent on "Show details" are those the most
\* recent statistics computation of that user returned; when that
\* computation returned none, no details of an earlier one are sent.
C26_DetailsAreCurrent ==
    [][\A u \in Users :
          ( /\ state[u] = STAT_SHOW_DETAILS
            /\ ev' = TextUpdate(u, "Show details")
            /\ "details" \in Range(sent') )
          => /\ call.made
             /\ call.details # NoDetails
             /\ draft[u]["conversion_details"] = call.details]_vars

(***************************************************************************)
(* Properties of the draft of an expense (Spec)                            *)
(***************************************************************************)
\* C27: in every reachable state where a user's dialogue is in ChooseDate
\* or EnterCustomDate, that user's draft holds category, amount, currency
\* and spender, whatever came before (/start, "to start", /cancel, earlier
\* commits), so save_row finds every field it reads.
C27_DraftCompleteAtDate ==
    \A u \in Users :
        state[u] \in {CHOOSE_DT, TYPING_DT}
        => {"cat", "amt", "cur", "spender"} \subseteq DOMAIN draft[u]

\* C27's case: after one commit the user is asked for a custom date in a
\* second add flow.
C27_Witness ==
    /\ Len(sheet.rows) = 1
    /\ state["u1"] = TYPING_DT
    /\ sent = <<"ask_custom_date">>
    /\ {"cat", "amt", "cur", "spender"} \subseteq DOMAIN draft["u1"]

\* The fields of user_data d among keys are those of user_data e.
SameFields(d, e, keys) == \A k \in keys : Get(d, k, None) = Get(e, k, None)

\* C28: the category, amount, currency and comment of a committed row are
\* what the committing user entered in the add flow that ends with the
\* commit, and the spender is that user's name.  Step by step: the states
\* of the add flow are entered in order only; each step of the flow stores
\* the entry of its update (the comment is empty on "skip") and keeps the
\* entries stored before it; the date states keep the draft; and the
\* commit writes the fields of the draft.
C28_RowFromCurrentFlow ==
    [][\A u \in Users :
          ev'.user = u
          => /\ (state'[u] = TYPING_AMT /\ state[u] # TYPING_AMT)
                   => /\ state[u] = CHOOSE_CAT
                      /\ Get(draft'[u], "cat", None) = ev'.data
             /\ (state'[u] = TYPING_AMT /\ state[u] = TYPING_AMT)
                   => draft'[u] = draft[u]
             /\ state'[u] = CHOOSE_CUR
                   => /\ state[u] = TYPING_AMT
                      /\ Get(draft'[u], "amt", None) =
                            ParseFloat(ReplaceComma(Chars(ev'.data))).val
                      /\ SameFields(draft'[u], draft[u], {"cat"})
             /\ state'[u] = TYPING_CMNT
                   => /\ state[u] = CHOOSE_CUR
                      /\ Get(draft'[u], "cur", None) = ev'.data
                      /\ Get(draft'[u], "spender", None) =
                            (IF u \in DOMAIN TELEGRAM_USERS
                             THEN TELEGRAM_USERS[u] ELSE username[u])
                      /\ SameFields(draft'[u], draft[u], {"cat", "amt"})
             /\ (state'[u] = CHOOSE_DT /\ state[u] # CHOOSE_DT)
                   => /\ state[u] = TYPING_CMNT
                      /\ Get(draft'[u], "comment", None) =
                            (IF ev'.kind = "callback" THEN "" ELSE ev'.data)
                      /\ SameFields(draft'[u], draft[u],
                                    {"cat", "amt", "cur", "spender"})
             /\ state'[u] = TYPING_DT
                   => /\ state[u] \in {CHOOSE_DT, TYPING_DT}
                      /\ draft'[u] = draft[u]
             /\ (state'[u] = CHOOSE_DT /\ state[u] = CHOOSE_DT)
                   => draft'[u] = draft[u]
             /\ sheet' # sheet
                   => /\ state[u] \in {CHOOSE_DT, TYPING_DT}
                      /\ SubSeq(sheet'.rows[Len(sheet'.rows)], 3, 7) =
                            << Get(draft[u], "cat", None),
                               NumCell(Get(draft[u], "amt", None)),
                               Get(draft[u], "cur", None),
                               Get(draft[u], "spender", None),
                               Get(draft[u], "comment", None) >>]_vars

\* C28's case: the unmapped user u2 committed a row with a comment, and
\* the mapped user u1 has just committed one without.
C28_Witness ==
    /\ Len(sheet.rows) = 2
    /\ sent = <<"saved", "menu">>
    /\ ev.user = "u1"
    /\ sheet.rows[1][6] = "lisa_tg" /\ sheet.rows[1][7] = "lunch"
    /\ sheet.rows[2][6] = "Azat" /\ sheet.rows[2][7] = ""

(***************************************************************************)
(* Properties of the statistics requests the dialogue can make (Spec)      *)
(***************************************************************************)
\* C29: in the states whose handlers run show_statistics_result, the draft
\* holds a month key or both ends of a date range, and no step ever
\* delivers the "period not specified" result.
C29_PeriodAlwaysPresent ==
    /\ call.stats.kind # "period_error"
    /\ \A u \in Users :
          state[u] \in {STAT_GROUP_CURRENCY, STAT_CONVERT_CURRENCY}
          => HasMonth(draft[u]) \/ HasRange(draft[u])

\* C29's case: statistics for a custom period have just been delivered,
\* the draft holding the range and no month.
C29_Witness ==
    /\ call.made
    /\ sent = <<"stats", "menu">>
    /\ call.args.month = None
    /\ call.args.date_from = "13.07.2025" /\ call.args.date_to = "13.07.2025"
    /\ ~HasMonth(draft["u1"]) /\ HasRange(draft["u1"])

\* C30: whenever a handler calls compute_stats with group_by_currency
\* false, it passes a target currency, the one the user has just chosen,
\* and a total that comes back is in that currency: amounts in different
\* currencies are not added up unconverted.
C30_UngroupedHasTarget ==
    [][\A u \in Users :
          (ev'.user = u /\ call'.made /\ ~call'.args.group_by_currency)
          => /\ state[u] = STAT_CONVERT_CURRENCY
             /\ call'.args.convert_to_currency # None
             /\ call'.args.convert_to_currency = ev'.data
             /\ call'.stats.kind = "total"
                   => call'.stats.cur = call'.args.convert_to_currency]_vars

\* C30's case: an expense in (R) was committed and then an ungrouped total
\* converted to (E) delivered.
C30_Witness ==
    /\ call.made /\ ~call.args.group_by_currency
    /\ call.args.convert_to_currency = "(E)"
    /\ call.stats.kind = "total" /\ call.stats.cur = "(E)"
    /\ Len(sheet.rows) = 1 /\ sheet.rows[1][5] = "(R)"
    /\ "(R)" \in DOMAIN call.details

(***************************************************************************)
(* Properties of the rows one add flow appends (SpecLossy, Spec)           *)
(***************************************************************************)
\* The states in which the date of an expense is chosen.
ExpenseDateStates == {CHOOSE_DT, TYPING_DT}

\* The step enters state s of user u from another state.
Enters(u, s) == state'[u] = s /\ state[u] # s

\* C31: a step of user u that appends a row closes the flow's date choice
\* (u is left in no state from which a repeated date choice appends
\* again), and the date choice is entered again only through
\* ChooseCategory, EnterAmount, ChooseCurrency and EnterComment in turn; so
\* a repeated "Today"/"Yesterday" or date message never appends a second
\* row for the same flow, also when the confirmation is not delivered.
C31_OneRowPerFlow ==
    [][\A u \in Users :
          /\ (ev'.user = u /\ sheet'.rows # sheet.rows)
                => state'[u] \notin ExpenseDateStates
          /\ Enters(u, TYPING_DT) => state[u] = CHOOSE_DT
          /\ Enters(u, CHOOSE_DT) => state[u] = TYPING_CMNT
          /\ Enters(u, TYPING_CMNT) => state[u] = CHOOSE_CUR
          /\ Enters(u, CHOOSE_CUR) => state[u] = TYPING_AMT
          /\ Enters(u, TYPING_AMT) => state[u] = CHOOSE_CAT]_vars

\* What C31 excludes: the worksheet holds two rows of one flow: one add
\* flow was begun, "Today" appended a row whose confirmation was not
\* delivered, and a second "Today" appended the same row again.
C31_OneFlowTwoRows ==
    ~( /\ flows = 1
       /\ Len(sheet.rows) = 2
       /\ sheet.rows[1] = sheet.rows[2]
       /\ ev = CallbackUpdate("u1", "today")
       /\ sent = <<"saved", "menu">> )

====
